---- MODULE Spec2Model ----
(***************************************************************************)
(* Centinel: the ledger of a personal finance tracker.                     *)
(*                                                                         *)
(* The state is the PostgreSQL database of the migrations (profiles, pots, *)
(* transactions) and the clock.  The operations are the plpgsql functions  *)
(* pot_deposit, pot_withdraw, delete_pot, get_budget_spent, the trigger    *)
(* update_balance_on_transaction and the table writes the client issues    *)
(* under the row-level policies.                                           *)
(*                                                                         *)
(* Every function is translated statement by statement (Stmt).  Under      *)
(* Spec, SpecPots and SpecTenants a request runs alone, from its first     *)
(* statement to its commit, as one action.  Under SpecConc requests of     *)
(* two database sessions interleave statement by statement with the        *)
(* semantics PostgreSQL gives a function that sets no isolation level      *)
(* (READ COMMITTED): a statement sees the committed rows and the session's *)
(* own writes, an UPDATE or DELETE of a row waits for the session that     *)
(* wrote the row last and then acts on the row as committed, and all       *)
(* writes of a session become visible together at its commit.              *)
(***************************************************************************)
EXTENDS Integers, Sequences, FiniteSets, TLC

\* ------------------------------------------------------------------ bounds
DaysPerMonth   == 7   \* days per calendar month
TicksPerSecond == 2   \* instants per second (timestamptz is finer than 1 s)
MaxMonth       == 1   \* the clock runs over the months 0..MaxMonth

\* Of every day the model keeps the instants of its final second: the first
\* one stands for every time of the day up to 23:59:59.0, the others for the
\* times after it.
TicksPerDay == TicksPerSecond
MonthLen    == DaysPerMonth * TicksPerDay   \* instants per calendar month

Users      == {"u1", "u2"}
NoUser     == "anon"              \* auth.uid() IS NULL
PotIds     == {"p1", "p2"}
TxIds      == {"t1", "t2"}
BudgetIds  == {"b1", "b2"}
Sessions   == {"s1", "s2"}
Categories == {"Bills", "General"}
null       == "null"            \* JavaScript null
NULL       == <<>>                \* SQL NULL of a numeric argument
Some(n)    == <<n>>

Times      == 0 .. ((MaxMonth + 1) * MonthLen - 1)

\* the dates the ledger is written with: of every month its first instant,
\* the instant one second before its end and its last instant
Dates      == UNION {{m * MonthLen, (m + 1) * MonthLen - TicksPerSecond,
                      (m + 1) * MonthLen - 1} : m \in 0 .. MaxMonth}

NoRow      == [exists |-> FALSE]

VARIABLES
  now,           \* the clock, in instants
  profiles,      \* profiles      : [Users  -> [balance]]
  pots,          \* pots          : [PotIds -> row or NoRow]
  transactions,  \* transactions  : [TxIds  -> row or NoRow]
  budgets,       \* budgets       : [BudgetIds -> row or NoRow]
  last,          \* the last call that ran alone: its operation, its error and
                 \* the change it made to its caller's balance
  sess,          \* the database sessions of concurrent requests
  start,         \* the committed rows when the first concurrent request began
  user,          \* AuthProvider: the state 'user' (an id, or null)
  isLoading,     \* AuthProvider: the state 'isLoading'
  previousUserIdRef,  \* AuthProvider: previousUserIdRef.current
  cache,         \* the query cache: the users whose data it holds
  session,       \* the user of the session supabase.auth holds, or null
  events,        \* the auth events not yet delivered to onAuthStateChange
  calls          \* the calls of the auth context in flight, and where each is

dbvars == <<now, profiles, pots, transactions, budgets, last, sess, start>>

authvars == <<user, isLoading, previousUserIdRef, cache, session, events, calls>>

vars == <<now, profiles, pots, transactions, budgets, last, sess, start,
          user, isLoading, previousUserIdRef, cache, session, events, calls>>

DB == [profiles |-> profiles, pots |-> pots, transactions |-> transactions,
       budgets |-> budgets]

\* ------------------------------------------------------- statement period
\* date_trunc('month', now())
date_trunc_month(t) == (t \div MonthLen) * MonthLen

v_month_start(t) == date_trunc_month(t)

\* v_month_start + interval '1 month' - interval '1 second'
v_month_end(t) == v_month_start(t) + MonthLen - TicksPerSecond

\* a window with no upper end (a mutant)
v_in_current_month_or_later(date, t) == date >= v_month_start(t)

\* date >= v_month_start AND date <= v_month_end
v_in_current_month(date, t) == date >= v_month_start(t) /\ date <= v_month_end(t)

\* the calendar month that contains t (the statement period of the glossary)
InStatementPeriod(date, t) == date \div MonthLen = t \div MonthLen

\* ------------------------------------------------------------------- rows
ProfileRow(b)          == [exists |-> TRUE, balance |-> b]
PotRow(u, total, target, theme, created_at) ==
  [exists |-> TRUE, total |-> total, target |-> target, theme |-> theme,
   created_at |-> created_at, user_id |-> u]
TxRow(u, a, d, c, n, r) == [exists |-> TRUE, date |-> d, user_id |-> u,
                            amount |-> a, category |-> c, name |-> n,
                            recurring |-> r]
BudgetRow(u, c, m, th) == [exists |-> TRUE, theme |-> th, user_id |-> u,
                           category |-> c, maximum |-> m]

\* ----------------------------------------------------------------- writes
\* The row writes a statement makes; a session keeps them in its write log
\* until its commit.
WBal(u, d)      == [d |-> d, k |-> "profiles.balance", row |-> u, new |-> NoRow]
WTot(p, d)      == [d |-> d, k |-> "pots.total", row |-> p, new |-> NoRow]
WPutPot(p, r)   == [d |-> 0, k |-> "pots.put", row |-> p, new |-> r]
WDelPot(p)      == [d |-> 0, k |-> "pots.delete", row |-> p, new |-> NoRow]
WPutTx(i, r)    == [d |-> 0, k |-> "transactions.put", row |-> i, new |-> r]
WDelTx(i)       == [d |-> 0, k |-> "transactions.delete", row |-> i, new |-> NoRow]
WPutBudget(i, r) == [d |-> 0, k |-> "budgets.put", row |-> i, new |-> r]
WDelBudget(i)   == [d |-> 0, k |-> "budgets.delete", row |-> i, new |-> NoRow]
WPutProfile(u, r) == [d |-> 0, k |-> "profiles.put", row |-> u, new |-> r]

ApplyWrite(db, w) ==
  CASE w.k = "profiles.balance" ->
         IF db.profiles[w.row].exists
         THEN [db EXCEPT !.profiles[w.row].balance = @ + w.d] ELSE db
    [] w.k = "pots.total" ->
         IF db.pots[w.row].exists
         THEN [db EXCEPT !.pots[w.row].total = @ + w.d] ELSE db
    [] w.k = "pots.put"            -> [db EXCEPT !.pots[w.row] = w.new]
    [] w.k = "pots.delete"         -> [db EXCEPT !.pots[w.row] = NoRow]
    [] w.k = "transactions.put"    -> [db EXCEPT !.transactions[w.row] = w.new]
    [] w.k = "transactions.delete" -> [db EXCEPT !.transactions[w.row] = NoRow]
    [] w.k = "budgets.put"         -> [db EXCEPT !.budgets[w.row] = w.new]
    [] w.k = "budgets.delete"      -> [db EXCEPT !.budgets[w.row] = NoRow]
    [] w.k = "profiles.put"        -> [db EXCEPT !.profiles[w.row] = w.new]

RECURSIVE ApplyWrites(_, _)
ApplyWrites(db, ws) ==
  IF ws = <<>> THEN db ELSE ApplyWrites(ApplyWrite(db, Head(ws)), Tail(ws))

\* the table and row a write locks
LockOf(w) ==
  CASE w.k \in {"profiles.balance", "profiles.put"}    -> <<"profiles", w.row>>
    [] w.k \in {"pots.total", "pots.put", "pots.delete"} -> <<"pots", w.row>>
    [] w.k \in {"budgets.put", "budgets.delete"}        -> <<"budgets", w.row>>
    [] OTHER                                          -> <<"transactions", w.row>>

Locks(ws) == {LockOf(ws[i]) : i \in 1 .. Len(ws)}

\* ------------------------------------------------------ requests, results
NoPatch == [date |-> NULL, amount |-> NULL, category |-> NULL, name |-> NULL,
            recurring |-> NULL]

Req(o, c, p, a, i, d) ==
  [amount |-> a, op |-> o, caller |-> c, pot_id |-> p, id |-> i, data |-> d]

NoReq == Req("none", NoUser, "p1", NULL, "t1", NoPatch)

DepositReq(c, p, a)  == Req("pot_deposit", c, p, a, "t1", NoPatch)
WithdrawReq(c, p, a) == Req("pot_withdraw", c, p, a, "t1", NoPatch)
DeleteReq(c, p)      == Req("delete_pot", c, p, NULL, "t1", NoPatch)

Result(e, p, b) == [error |-> e, pot |-> p, newBalance |-> b]

Error(msg)  == Result(msg, NoRow, NULL)
Success     == Result("", NoRow, NULL)
NoResult    == Result("pending", NoRow, NULL)

NoLocals == [v_pot |-> NoRow, v_profile |-> NoRow]

\* what a statement does: where control goes, the variables it sets, the
\* rows it writes (w) and locks (lk), and (when it ends the request) the
\* result; abort is an exception, which rolls the whole request back
Goto(pc, loc) ==
  [w |-> <<>>, pc |-> pc, loc |-> loc, lk |-> {}, res |-> NoResult, abort |-> FALSE]
Write(pc, loc, w) ==
  [w |-> w, pc |-> pc, loc |-> loc, lk |-> Locks(w), res |-> NoResult, abort |-> FALSE]
Return(res) ==
  [w |-> <<>>, pc |-> "done", loc |-> NoLocals, lk |-> {}, res |-> res, abort |-> FALSE]
WriteReturn(w, res) ==
  [w |-> w, pc |-> "done", loc |-> NoLocals, lk |-> Locks(w), res |-> res, abort |-> FALSE]
Raise(msg, lk) ==
  [w |-> <<>>, pc |-> "done", loc |-> NoLocals, lk |-> lk, res |-> Error(msg), abort |-> TRUE]

\* a select that finds the pot of any owner (a mutant)
SelectOwnPot_of_any_owner(v, pot_id, v_user_id) == v.pots[pot_id]

\* SELECT * FROM pots WHERE id = pot_id AND user_id = v_user_id
SelectOwnPot(v, pot_id, v_user_id) ==
  IF v.pots[pot_id].exists /\ v.pots[pot_id].user_id = v_user_id
  THEN v.pots[pot_id] ELSE NoRow

\* a transfer that leaves the pot total as it was (a mutant)
UpdatePotTotal_skipped(v, pot_id, d, pc, loc) == Goto(pc, loc)

\* UPDATE pots SET total = total + d WHERE id = pot_id, under CHECK (total >= 0)
UpdatePotTotal(v, pot_id, d, pc, loc) ==
  IF ~v.pots[pot_id].exists THEN Goto(pc, loc)
  ELSE IF v.pots[pot_id].total + d < 0
       THEN Raise("new row violates check constraint pots_total_check",
                  {<<"pots", pot_id>>})
       ELSE Write(pc, loc, <<WTot(pot_id, d)>>)

\* ------------------------------------------------------------ pot_deposit
\* a debit that writes the balance computed from the row read for the check
\* (a mutant)
DebitProfile_from_v_profile(v, v_profile, v_user_id, amount) ==
  WBal(v_user_id, (v_profile.balance - amount) - v.profiles[v_user_id].balance)

\* UPDATE profiles SET balance = balance - amount WHERE id = v_user_id
DebitProfile(v, v_profile, v_user_id, amount) == WBal(v_user_id, -amount)

\* a deposit without the sufficiency check (a mutant)
insufficient_balance_unchecked(v_profile, amount) == FALSE

\* IF v_profile.balance < amount
insufficient_balance(v_profile, amount) == v_profile.balance < amount

\* a deposit that looks the pot up before it validates the amount (a mutant)
pot_deposit_pot_before_amount(pc, req, loc, v) ==
  LET v_user_id == req.caller
      pot_id    == req.pot_id
      amount    == req.amount
  IN CASE pc = "select_pot" ->
            IF v_user_id = NoUser THEN Return(Error("Unauthorized"))
            ELSE LET v_pot == SelectOwnPot(v, pot_id, v_user_id)
                 IN IF ~v_pot.exists THEN Return(Error("Pot not found"))
                    ELSE IF amount = NULL \/ amount[1] <= 0
                         THEN Return(Error("Amount must be a positive number"))
                    ELSE Goto("select_profile", [loc EXCEPT !.v_pot = v_pot])
       [] pc = "select_profile" ->
            LET v_profile == v.profiles[v_user_id]
            IN IF ~v_profile.exists THEN Return(Error("Profile not found"))
               ELSE IF insufficient_balance(v_profile, amount[1])
                    THEN Return(Error("Insufficient balance"))
               ELSE Goto("update_profiles", [loc EXCEPT !.v_profile = v_profile])
       [] pc = "update_profiles" ->
            Write("update_pots", loc,
                  <<DebitProfile(v, loc.v_profile, v_user_id, amount[1])>>)
       [] pc = "update_pots" ->
            UpdatePotTotal(v, pot_id, amount[1], "return", loc)
       [] pc = "return" ->
            Return(Result("", v.pots[pot_id], Some(v.profiles[v_user_id].balance)))

pot_deposit(pc, req, loc, v) ==
  LET v_user_id == req.caller
      pot_id    == req.pot_id
      amount    == req.amount
  IN CASE pc = "select_pot" ->
            IF v_user_id = NoUser THEN Return(Error("Unauthorized"))
            ELSE IF amount = NULL \/ amount[1] <= 0
                 THEN Return(Error("Amount must be a positive number"))
            ELSE LET v_pot == SelectOwnPot(v, pot_id, v_user_id)
                 IN IF ~v_pot.exists THEN Return(Error("Pot not found"))
                    ELSE Goto("select_profile", [loc EXCEPT !.v_pot = v_pot])
       [] pc = "select_profile" ->
            LET v_profile == v.profiles[v_user_id]
            IN IF ~v_profile.exists THEN Return(Error("Profile not found"))
               ELSE IF insufficient_balance(v_profile, amount[1])
                    THEN Return(Error("Insufficient balance"))
               ELSE Goto("update_profiles", [loc EXCEPT !.v_profile = v_profile])
       [] pc = "update_profiles" ->
            Write("update_pots", loc,
                  <<DebitProfile(v, loc.v_profile, v_user_id, amount[1])>>)
       [] pc = "update_pots" ->
            UpdatePotTotal(v, pot_id, amount[1], "return", loc)
       [] pc = "return" ->
            Return(Result("", v.pots[pot_id], Some(v.profiles[v_user_id].balance)))

\* ----------------------------------------------------------- pot_withdraw
\* a withdrawal from a pots table without CHECK (total >= 0) (a mutant)
pot_withdraw_without_check(pc, req, loc, v) ==
  LET v_user_id == req.caller
      pot_id    == req.pot_id
      amount    == req.amount
  IN CASE pc = "select_pot" ->
            IF v_user_id = NoUser THEN Return(Error("Unauthorized"))
            ELSE IF amount = NULL \/ amount[1] <= 0
                 THEN Return(Error("Amount must be a positive number"))
            ELSE LET v_pot == SelectOwnPot(v, pot_id, v_user_id)
                 IN IF ~v_pot.exists THEN Return(Error("Pot not found"))
                    ELSE IF v_pot.total < amount[1]
                         THEN Return(Error("Insufficient pot balance"))
                    ELSE Goto("update_pots", [loc EXCEPT !.v_pot = v_pot])
       [] pc = "update_pots" ->
            Write("update_profiles", loc, <<WTot(pot_id, -amount[1])>>)
       [] pc = "update_profiles" ->
            Write("return", loc, <<WBal(v_user_id, amount[1])>>)
       [] pc = "return" ->
            Return(Result("", v.pots[pot_id], Some(v.profiles[v_user_id].balance)))

pot_withdraw(pc, req, loc, v) ==
  LET v_user_id == req.caller
      pot_id    == req.pot_id
      amount    == req.amount
  IN CASE pc = "select_pot" ->
            IF v_user_id = NoUser THEN Return(Error("Unauthorized"))
            ELSE IF amount = NULL \/ amount[1] <= 0
                 THEN Return(Error("Amount must be a positive number"))
            ELSE LET v_pot == SelectOwnPot(v, pot_id, v_user_id)
                 IN IF ~v_pot.exists THEN Return(Error("Pot not found"))
                    ELSE IF v_pot.total < amount[1]
                         THEN Return(Error("Insufficient pot balance"))
                    ELSE Goto("update_pots", [loc EXCEPT !.v_pot = v_pot])
       [] pc = "update_pots" ->
            UpdatePotTotal(v, pot_id, -amount[1], "update_profiles", loc)
       [] pc = "update_profiles" ->
            Write("return", loc, <<WBal(v_user_id, amount[1])>>)
       [] pc = "return" ->
            Return(Result("", v.pots[pot_id], Some(v.profiles[v_user_id].balance)))

\* ------------------------------------------------------------- delete_pot
\* a delete that does not return the money (a mutant)
delete_pot_keeping(pc, req, loc, v) ==
  LET v_pot == SelectOwnPot(v, req.pot_id, req.caller)
  IN IF req.caller = NoUser THEN Return(Error("Unauthorized"))
     ELSE IF ~v_pot.exists THEN Return(Error("Pot not found"))
     ELSE WriteReturn(<<WDelPot(req.pot_id)>>, Success)

delete_pot(pc, req, loc, v) ==
  LET v_user_id == req.caller
      pot_id    == req.pot_id
  IN CASE pc = "select_pot" ->
            IF v_user_id = NoUser THEN Return(Error("Unauthorized"))
            ELSE LET v_pot == SelectOwnPot(v, pot_id, v_user_id)
                 IN IF ~v_pot.exists THEN Return(Error("Pot not found"))
                    ELSE Goto("update_profiles", [loc EXCEPT !.v_pot = v_pot])
       [] pc = "update_profiles" ->
            IF loc.v_pot.total > 0
            THEN Write("delete_pots", loc, <<WBal(v_user_id, loc.v_pot.total)>>)
            ELSE Goto("delete_pots", loc)
       [] pc = "delete_pots" ->
            WriteReturn(IF v.pots[pot_id].exists THEN <<WDelPot(pot_id)>> ELSE <<>>,
                        Success)

\* ------------------------------------------- update_balance_on_transaction
\* a trigger that handles INSERT only (a mutant)
update_balance_on_insert_only(TG_OP, OLD_, NEW_, t) ==
  IF TG_OP = "INSERT" /\ v_in_current_month(NEW_.date, t)
  THEN <<WBal(NEW_.user_id, NEW_.amount)>> ELSE <<>>

\* The AFTER INSERT OR UPDATE OR DELETE row trigger: the writes it makes to
\* profiles, at time t = now().
update_balance_on_transaction(TG_OP, OLD_, NEW_, t) ==
  CASE TG_OP = "INSERT" ->
         IF v_in_current_month(NEW_.date, t)
         THEN <<WBal(NEW_.user_id, NEW_.amount)>> ELSE <<>>
    [] TG_OP = "UPDATE" ->
         IF v_in_current_month(OLD_.date, t) \/ v_in_current_month(NEW_.date, t)
         THEN (IF v_in_current_month(OLD_.date, t)
               THEN <<WBal(OLD_.user_id, -OLD_.amount)>> ELSE <<>>)
              \o
              (IF v_in_current_month(NEW_.date, t)
               THEN <<WBal(NEW_.user_id, NEW_.amount)>> ELSE <<>>)
         ELSE <<>>
    [] TG_OP = "DELETE" ->
         IF v_in_current_month(OLD_.date, t)
         THEN <<WBal(OLD_.user_id, -OLD_.amount)>> ELSE <<>>

\* the policy "Users can CRUD own transactions": USING (auth.uid() = user_id)
OwnTransaction(v, id, caller) ==
  IF v.transactions[id].exists /\ v.transactions[id].user_id = caller
  THEN v.transactions[id] ELSE NoRow

\* ------------------------------------------------------ createTransaction
\* req.id is the uuid gen_random_uuid() draws for the new row
createTransaction(pc, req, loc, v, t) ==
  IF req.caller = NoUser THEN Return(Error("Unauthorized"))
  ELSE IF req.data.category[1] \notin Categories
       THEN Raise("new row violates check constraint transactions_category_check", {})
  ELSE LET NEW_ == TxRow(req.caller, req.data.amount[1], req.data.date[1],
                        req.data.category[1], req.data.name[1],
                        IF req.data.recurring = NULL THEN FALSE
                        ELSE req.data.recurring[1])
       IN WriteReturn(<<WPutTx(req.id, NEW_)>>
                        \o update_balance_on_transaction("INSERT", NoRow, NEW_, t),
                      Success)

\* ------------------------------------------------------ updateTransaction
\* an update that writes the whole record, an absent amount as 0 (a mutant)
updateTransaction_of_whole_record(pc, req, loc, v, t) ==
  LET OLD_ == OwnTransaction(v, req.id, req.caller)
      NEW_ == [OLD_ EXCEPT
                !.amount   = IF req.data.amount   = NULL THEN 0 ELSE req.data.amount[1],
                !.date     = IF req.data.date     = NULL THEN @ ELSE req.data.date[1],
                !.category = IF req.data.category = NULL THEN @ ELSE req.data.category[1],
                !.name     = IF req.data.name     = NULL THEN @ ELSE req.data.name[1],
                !.recurring = IF req.data.recurring = NULL THEN @ ELSE req.data.recurring[1]]
  IN IF ~OLD_.exists
     THEN Return(Error("JSON object requested, multiple (or no) rows returned"))
     ELSE WriteReturn(<<WPutTx(req.id, NEW_)>>
                        \o update_balance_on_transaction("UPDATE", OLD_, NEW_, t),
                      Success)

updateTransaction(pc, req, loc, v, t) ==
  LET OLD_ == OwnTransaction(v, req.id, req.caller)
      NEW_ == [OLD_ EXCEPT
                !.amount   = IF req.data.amount   = NULL THEN @ ELSE req.data.amount[1],
                !.date     = IF req.data.date     = NULL THEN @ ELSE req.data.date[1],
                !.category = IF req.data.category = NULL THEN @ ELSE req.data.category[1],
                !.name     = IF req.data.name     = NULL THEN @ ELSE req.data.name[1],
                !.recurring = IF req.data.recurring = NULL THEN @ ELSE req.data.recurring[1]]
  IN IF ~OLD_.exists
     THEN Return(Error("JSON object requested, multiple (or no) rows returned"))
     ELSE IF NEW_.category \notin Categories
          THEN Raise("new row violates check constraint transactions_category_check", {})
     ELSE WriteReturn(<<WPutTx(req.id, NEW_)>>
                        \o update_balance_on_transaction("UPDATE", OLD_, NEW_, t),
                      Success)

\* ------------------------------------------------------ deleteTransaction
deleteTransaction(pc, req, loc, v, t) ==
  LET OLD_ == OwnTransaction(v, req.id, req.caller)
  IN IF ~OLD_.exists THEN Return(Success)
     ELSE WriteReturn(<<WDelTx(req.id)>>
                        \o update_balance_on_transaction("DELETE", OLD_, NoRow, t),
                      Success)

\* -------------------------------------------------------------- createPot
\* req.pot_id is the uuid gen_random_uuid() draws for the new row
PotViolation_without_unique_theme(v, id, r) ==
  IF r.target < 0 THEN "new row violates check constraint pots_target_check"
  ELSE IF r.total < 0 THEN "new row violates check constraint pots_total_check"
  ELSE ""

\* CHECK (target >= 0), CHECK (total >= 0) and UNIQUE (user_id, theme) on the
\* row r written as pot id
PotViolation(v, id, r) ==
  IF r.target < 0 THEN "new row violates check constraint pots_target_check"
  ELSE IF r.total < 0 THEN "new row violates check constraint pots_total_check"
  ELSE IF \E j \in DOMAIN v.pots \ {id} :
            /\ v.pots[j].exists /\ v.pots[j].user_id = r.user_id
            /\ v.pots[j].theme = r.theme
       THEN "duplicate key value violates unique constraint pots_user_id_theme_key"
  ELSE ""

\* created_at DEFAULT now(): the time t of the request
createPot(pc, req, loc, v, t) ==
  IF req.caller = NoUser THEN Return(Error("Unauthorized"))
  ELSE LET NEW_ == PotRow(req.caller, 0, req.data.target[1], req.data.theme[1], t)
       IN IF PotViolation(v, req.pot_id, NEW_) # ""
          THEN Raise(PotViolation(v, req.pot_id, NEW_), {})
          ELSE WriteReturn(<<WPutPot(req.pot_id, NEW_)>>, Result("", NEW_, NULL))

\* ------------------------------------------------------------ the budgets
\* the policy "Users can CRUD own budgets": USING (auth.uid() = user_id)
OwnBudget(v, id, caller) ==
  IF v.budgets[id].exists /\ v.budgets[id].user_id = caller
  THEN v.budgets[id] ELSE NoRow

\* UNIQUE (user_id, category), UNIQUE (user_id, theme) and
\* CHECK (maximum >= 0) on the row r written as budget id
BudgetViolation(v, id, r) ==
  IF r.maximum < 0 THEN "new row violates check constraint budgets_maximum_check"
  ELSE IF r.category \notin Categories
       THEN "new row violates check constraint budgets_category_check"
  ELSE IF \E j \in BudgetIds \ {id} :
            /\ v.budgets[j].exists /\ v.budgets[j].user_id = r.user_id
            /\ v.budgets[j].category = r.category
       THEN "duplicate key value violates unique constraint"
  ELSE IF \E j \in BudgetIds \ {id} :
            /\ v.budgets[j].exists /\ v.budgets[j].user_id = r.user_id
            /\ v.budgets[j].theme = r.theme
       THEN "duplicate key value violates unique constraint budgets_user_id_theme_key"
  ELSE ""

\* req.id is the uuid gen_random_uuid() draws for the new row
createBudget(pc, req, loc, v) ==
  IF req.caller = NoUser THEN Return(Error("Unauthorized"))
  ELSE LET NEW_ == BudgetRow(req.caller, req.data.category[1], req.data.maximum[1],
                             req.data.theme[1])
       IN IF BudgetViolation(v, req.id, NEW_) # ""
          THEN Raise(BudgetViolation(v, req.id, NEW_), {})
          ELSE WriteReturn(<<WPutBudget(req.id, NEW_)>>, Success)

updateBudget(pc, req, loc, v) ==
  LET OLD_ == OwnBudget(v, req.id, req.caller)
      NEW_ == [OLD_ EXCEPT
                !.category = IF req.data.category = NULL THEN @ ELSE req.data.category[1],
                !.maximum  = IF req.data.maximum  = NULL THEN @ ELSE req.data.maximum[1],
                !.theme    = IF req.data.theme    = NULL THEN @ ELSE req.data.theme[1]]
  IN IF ~OLD_.exists
     THEN Return(Error("JSON object requested, multiple (or no) rows returned"))
     ELSE IF BudgetViolation(v, req.id, NEW_) # ""
          THEN Raise(BudgetViolation(v, req.id, NEW_), {<<"budgets", req.id>>})
     ELSE WriteReturn(<<WPutBudget(req.id, NEW_)>>, Success)

deleteBudget(pc, req, loc, v) ==
  IF ~OwnBudget(v, req.id, req.caller).exists THEN Return(Success)
  ELSE WriteReturn(<<WDelBudget(req.id)>>, Success)

\* -------------------------------------------------------------- updatePot
\* name, target and theme are the columns updatePot can set: the total and
\* the owner of the row stay
updatePot(pc, req, loc, v) ==
  LET OLD_ == SelectOwnPot(v, req.pot_id, req.caller)
      NEW_ == [OLD_ EXCEPT
                !.target = IF req.data.target = NULL THEN @ ELSE req.data.target[1],
                !.theme  = IF req.data.theme  = NULL THEN @ ELSE req.data.theme[1]]
  IN IF ~OLD_.exists
     THEN Return(Error("JSON object requested, multiple (or no) rows returned"))
     ELSE IF PotViolation(v, req.pot_id, NEW_) # ""
          THEN Raise(PotViolation(v, req.pot_id, NEW_), {<<"pots", req.pot_id>>})
     ELSE WriteReturn(<<WPutPot(req.pot_id, NEW_)>>, Result("", NEW_, NULL))

\* --------------------------------------------------- fetchUserWithProfile
\* The writes of fetchUserWithProfile(userId) in the session of caller.
\* readFails: the select of the profile returns an error (the request fails
\* on its way) although the database is as v. The upsert with
\* onConflict: 'id' inserts the row or, when it exists, updates it to the
\* given columns; the policies admit only the caller's own row.
fetchUserWithProfile(v, caller, userId, readFails) ==
  LET profile == IF userId = caller THEN v.profiles[userId] ELSE NoRow
      error   == readFails \/ ~profile.exists
  IN IF caller = NoUser THEN <<>>
     ELSE IF error /\ userId = caller
          THEN <<WPutProfile(userId, ProfileRow(0))>>
          ELSE <<>>

\* ------------------------------------------------------- get_budget_spent
RECURSIVE SumAmounts(_, _)
SumAmounts(v, ids) ==
  IF ids = {} THEN 0
  ELSE LET i == CHOOSE x \in ids : TRUE
       IN v.transactions[i].amount + SumAmounts(v, ids \ {i})

ABS(n) == IF n < 0 THEN -n ELSE n

\* a sum over the rows as they were at the start (a mutant)
get_budget_spent_of_stored_rows(v, t, p_user_id, p_category) ==
  ABS(SumAmounts(start, {i \in TxIds :
        /\ start.transactions[i].exists
        /\ start.transactions[i].user_id = p_user_id
        /\ start.transactions[i].category = p_category
        /\ start.transactions[i].amount < 0
        /\ start.transactions[i].date >= v_month_start(t)
        /\ start.transactions[i].date <= v_month_end(t)}))

\* SECURITY DEFINER: the rows are read without the row-level policies
get_budget_spent(v, t, p_user_id, p_category) ==
  ABS(SumAmounts(v, {i \in TxIds :
        /\ v.transactions[i].exists
        /\ v.transactions[i].user_id = p_user_id
        /\ v.transactions[i].category = p_category
        /\ v.transactions[i].amount < 0
        /\ v.transactions[i].date >= v_month_start(t)
        /\ v.transactions[i].date <= v_month_end(t)}))

\* ------------------------------------------------------------ get_budgets
\* the budget rows of the caller with spent and remaining
BudgetsWithSpent(v, t, v_user_id) ==
  [i \in BudgetIds |->
     IF OwnBudget(v, i, v_user_id).exists
     THEN [exists    |-> TRUE,
           category  |-> v.budgets[i].category,
           maximum   |-> v.budgets[i].maximum,
           spent     |-> get_budget_spent(v, t, v_user_id, v.budgets[i].category),
           remaining |-> v.budgets[i].maximum
                           - get_budget_spent(v, t, v_user_id, v.budgets[i].category)]
     ELSE NoRow]

get_budgets(v, t, caller) ==
  IF caller = NoUser THEN [budgets |-> <<>>, error |-> "Unauthorized"]
  ELSE [budgets |-> BudgetsWithSpent(v, t, caller), error |-> ""]

\* 'budgets' of get_overview: the same rows with the same spent and remaining
get_overview_budgets(v, t, caller) ==
  IF caller = NoUser THEN [budgets |-> <<>>, error |-> "Unauthorized"]
  ELSE IF ~v.profiles[caller].exists
       THEN [budgets |-> <<>>, error |-> "Profile not found"]
  ELSE [budgets |-> BudgetsWithSpent(v, t, caller), error |-> ""]

\* -------------------------------------------------------- getTransactions
Min(a, b) == IF a < b THEN a ELSE b

\* the place of a name in the order of the names
NameRank(n) == IF n = "Acme" THEN 1 ELSE 2

\* name ILIKE '%search%' and name.toLowerCase().includes(search.toLowerCase())
Searches == {"", "ac", "B", "x"}
ILike(name, search) ==
  \/ search = ""
  \/ name = "Acme" /\ search = "ac"
  \/ name = "Bolt" /\ search = "B"

Sorts == {"Latest", "Oldest", "A to Z", "Z to A", "Highest", "Lowest"}

SORT_MAP(sort) ==
  CASE sort = "Oldest"  -> [column |-> "date",   ascending |-> TRUE]
    [] sort = "A to Z"  -> [column |-> "name",   ascending |-> TRUE]
    [] sort = "Z to A"  -> [column |-> "name",   ascending |-> FALSE]
    [] sort = "Highest" -> [column |-> "amount", ascending |-> FALSE]
    [] sort = "Lowest"  -> [column |-> "amount", ascending |-> TRUE]
    [] OTHER            -> [column |-> "date",   ascending |-> FALSE]

\* the sort key of a row
Column(row, column) ==
  CASE column = "date"   -> row.date
    [] column = "name"   -> NameRank(row.name)
    [] column = "amount" -> row.amount

RECURSIVE Perms(_)
Perms(S) ==
  IF S = {} THEN {<<>>}
  ELSE UNION {{<<x>> \o q : q \in Perms(S \ {x})} : x \in S}

\* .order(column, { ascending }): the orders in which the database may return
\* the rows S; rows with equal keys come in any order
OrderBy(v, S, column, ascending) ==
  {o \in Perms(S) :
     \A a, b \in 1 .. Len(o) :
       a < b => IF ascending
                THEN Column(v.transactions[o[a]], column)
                       <= Column(v.transactions[o[b]], column)
                ELSE Column(v.transactions[o[a]], column)
                       >= Column(v.transactions[o[b]], column)}

\* Math.ceil(total / limit)
Ceil(total, limit) == (total + limit - 1) \div limit

DefaultLimit == 10

\* the rows the query of getTransactions matches for the caller
Matching(v, caller, params) ==
  {i \in TxIds :
     /\ OwnTransaction(v, i, caller).exists
     /\ ILike(v.transactions[i].name, params.search)
     /\ (params.category \in {"", "All Transactions"}
           \/ v.transactions[i].category = params.category)}

\* getTransactions when the database returns the matching rows in order o;
\* transactions holds the ids of the rows of the page
getTransactions(v, caller, params, o) ==
  LET page  == IF params.page = NULL THEN 1 ELSE params.page[1]
      limit == IF params.limit = NULL THEN DefaultLimit ELSE params.limit[1]
      from  == (page - 1) * limit
      to    == from + limit - 1
      total == Len(o)
  IN [transactions |-> SubSeq(o, from + 1, Min(to + 1, total)),
      total |-> total, limit |-> limit, page |-> page,
      pages |-> Ceil(total, limit)]

\* every result getTransactions can return
GetTransactions(v, caller, params) ==
  {getTransactions(v, caller, params, o) :
     o \in OrderBy(v, Matching(v, caller, params),
                   SORT_MAP(params.sort).column, SORT_MAP(params.sort).ascending)}

\* params of getTransactions
Params(page, limit, sort, search, category) ==
  [category |-> category, search |-> search, sort |-> sort, limit |-> limit,
   page |-> page]

\* ------------------------------------------------------ getRecurringBills
FetchLimit == 500

DueSoonDays == 5

\* getDate() and EXTRACT(DAY FROM date): the day of the month, from 1
DayOfMonth(t) == ((t % MonthLen) \div TicksPerDay) + 1

\* new Date(CURRENT_YEAR, CURRENT_MONTH, 1)
CURRENT_MONTH_START(t) == (t \div MonthLen) * MonthLen

\* new Date(CURRENT_YEAR, CURRENT_MONTH + 1, 0, 23, 59, 59, 999)
CURRENT_MONTH_END(t) == CURRENT_MONTH_START(t) + MonthLen - 1

\* allTransactions.filter((tx) => tx.recurring && tx.amount < 0)
IsRecurringExpense(row) == row.recurring /\ row.amount < 0

\* billMap after the transactions txs: the transaction kept for every name,
\* in the order in which the names came first
RECURSIVE billMap(_, _, _)
billMap(v, txs, m) ==
  IF txs = <<>> THEN m
  ELSE LET tx == Head(txs)
           at == {k \in 1 .. Len(m) :
                    v.transactions[m[k]].name = v.transactions[tx].name}
           k0 == CHOOSE k \in at : TRUE
       IN billMap(v, Tail(txs),
            IF at = {} THEN Append(m, tx)
            ELSE IF v.transactions[tx].date > v.transactions[m[k0]].date
                 THEN [m EXCEPT ![k0] = tx]
                 ELSE m)

\* the status of a bill whose transaction is dated date, at time t
BillStatus(date, t) ==
  LET dueDay          == DayOfMonth(date)
      CURRENT_DATE    == DayOfMonth(t)
      isPaidThisMonth == date >= CURRENT_MONTH_START(t) /\ date <= CURRENT_MONTH_END(t)
  IN IF isPaidThisMonth THEN "paid"
     ELSE IF dueDay > CURRENT_DATE /\ dueDay <= CURRENT_DATE + DueSoonDays
          THEN "due-soon"
          ELSE "upcoming"

RecurringBill(v, tx, t) ==
  [date   |-> v.transactions[tx].date,
   amount |-> v.transactions[tx].amount,
   name   |-> v.transactions[tx].name,
   id     |-> tx,
   dueDay |-> DayOfMonth(v.transactions[tx].date),
   status |-> BillStatus(v.transactions[tx].date, t)]

\* the comparator of filteredBills.sort is the difference of these keys
BillSortKey(b, sortOption) ==
  CASE sortOption = "Latest"  -> b.dueDay
    [] sortOption = "Oldest"  -> -b.dueDay
    [] sortOption = "A to Z"  -> NameRank(b.name)
    [] sortOption = "Z to A"  -> -NameRank(b.name)
    [] sortOption = "Highest" -> -ABS(b.amount)
    [] sortOption = "Lowest"  -> ABS(b.amount)
    [] OTHER                  -> 0

\* Array.prototype.sort: a stable sort
RECURSIVE SortBills(_, _)
SortBills(bills, sortOption) ==
  IF bills = <<>> THEN <<>>
  ELSE LET n      == Len(bills)
           x      == bills[n]
           sorted == SortBills(SubSeq(bills, 1, n - 1), sortOption)
           after  == {k \in 1 .. Len(sorted) :
                        BillSortKey(x, sortOption) < BillSortKey(sorted[k], sortOption)}
           at     == IF after = {} THEN Len(sorted) + 1
                     ELSE CHOOSE k \in after : \A j \in after : k <= j
       IN SubSeq(sorted, 1, at - 1) \o <<x>> \o SubSeq(sorted, at, Len(sorted))

RECURSIVE SumAbsAmounts(_)
SumAbsAmounts(bills) ==
  IF bills = <<>> THEN 0 ELSE ABS(Head(bills).amount) + SumAbsAmounts(Tail(bills))

CountAndAmount(bills) == [amount |-> SumAbsAmounts(bills), count |-> Len(bills)]

isUpcomingBill_without_due_soon(b) == b.status = "upcoming"

\* bills.filter((b) => b.status === 'upcoming' || b.status === 'due-soon')
isUpcomingBill(b) == b.status = "upcoming" \/ b.status = "due-soon"

\* a summary taken over the bills that match the search (a mutant)
getRecurringBills_summary_of_filtered(v, t, caller, params, o) ==
  LET allTransactions == getTransactions(v, caller,
                           Params(NULL, Some(FetchLimit), "", "", ""), o).transactions
      IsBill(tx)      == IsRecurringExpense(v.transactions[tx])
      recurringTransactions == SelectSeq(allTransactions, IsBill)
      uniqueBills     == billMap(v, recurringTransactions, <<>>)
      bills           == [k \in 1 .. Len(uniqueBills) |->
                            RecurringBill(v, uniqueBills[k], t)]
      Found(b)        == ILike(b.name, params.search)
      filteredBills   == SelectSeq(bills, Found)
      IsPaid(b)       == b.status = "paid"
      IsDueSoon(b)    == b.status = "due-soon"
      upcomingBills   == SelectSeq(filteredBills, isUpcomingBill)
  IN [bills   |-> SortBills(filteredBills, params.sort),
      summary |-> [total       |-> Len(upcomingBills),
                   totalAmount |-> SumAbsAmounts(upcomingBills),
                   paid        |-> CountAndAmount(SelectSeq(filteredBills, IsPaid)),
                   upcoming    |-> CountAndAmount(upcomingBills),
                   dueSoon     |-> CountAndAmount(SelectSeq(filteredBills, IsDueSoon))]]

\* getRecurringBills at time t, when the database returns the caller's
\* transactions in the order o of getTransactions({ limit: 500 })
getRecurringBills(v, t, caller, params, o) ==
  LET allTransactions == getTransactions(v, caller,
                           Params(NULL, Some(FetchLimit), "", "", ""), o).transactions
      IsBill(tx)      == IsRecurringExpense(v.transactions[tx])
      recurringTransactions == SelectSeq(allTransactions, IsBill)
      uniqueBills     == billMap(v, recurringTransactions, <<>>)
      bills           == [k \in 1 .. Len(uniqueBills) |->
                            RecurringBill(v, uniqueBills[k], t)]
      Found(b)        == ILike(b.name, params.search)
      filteredBills   == SelectSeq(bills, Found)
      IsPaid(b)       == b.status = "paid"
      IsDueSoon(b)    == b.status = "due-soon"
      upcomingBills   == SelectSeq(bills, isUpcomingBill)
  IN [bills   |-> SortBills(filteredBills, params.sort),
      summary |-> [total       |-> Len(upcomingBills),
                   totalAmount |-> SumAbsAmounts(upcomingBills),
                   paid        |-> CountAndAmount(SelectSeq(bills, IsPaid)),
                   upcoming    |-> CountAndAmount(upcomingBills),
                   dueSoon     |-> CountAndAmount(SelectSeq(bills, IsDueSoon))]]

BillsParams(search, sort) == [search |-> search, sort |-> sort]

\* every result getRecurringBills can return
GetRecurringBills(v, t, caller, params) ==
  {getRecurringBills(v, t, caller, params, o) :
     o \in OrderBy(v, Matching(v, caller, Params(NULL, NULL, "", "", "")),
                   SORT_MAP("").column, SORT_MAP("").ascending)}

\* ------------------------------------------- get_overview: recurringBills
\* SELECT DISTINCT ON (name) ... ORDER BY name, date DESC: the choices of one
\* latest-dated row for every name; rows of one name and one date come in any
\* order
recurring(v, v_user_id) ==
  LET rows == {i \in TxIds :
                 /\ v.transactions[i].exists
                 /\ v.transactions[i].user_id = v_user_id
                 /\ IsRecurringExpense(v.transactions[i])}
      Latest(i) == \A j \in rows :
                     v.transactions[j].name = v.transactions[i].name
                       => v.transactions[j].date <= v.transactions[i].date
  IN {S \in SUBSET {i \in rows : Latest(i)} :
        \A i \in rows :
          Cardinality({j \in S : v.transactions[j].name = v.transactions[i].name}) = 1}

RECURSIVE SumAbsOf(_, _)
SumAbsOf(v, ids) ==
  IF ids = {} THEN 0
  ELSE LET i == CHOOSE x \in ids : TRUE
       IN ABS(v.transactions[i].amount) + SumAbsOf(v, ids \ {i})

\* 'recurringBills' of get_overview when DISTINCT ON keeps the rows rec
recurring_bills(v, t, rec) ==
  LET paid     == {i \in rec : v_in_current_month(v.transactions[i].date, t)}
      unpaid   == {i \in rec : ~v_in_current_month(v.transactions[i].date, t)}
      v_current_date == DayOfMonth(t)
      due_soon == {i \in unpaid :
                     /\ DayOfMonth(v.transactions[i].date) > v_current_date
                     /\ DayOfMonth(v.transactions[i].date)
                          <= v_current_date + DueSoonDays}
  IN [total       |-> Cardinality(unpaid),
      totalAmount |-> SumAbsOf(v, unpaid),
      paid        |-> [amount |-> SumAbsOf(v, paid), count |-> Cardinality(paid)],
      upcoming    |-> [amount |-> SumAbsOf(v, unpaid), count |-> Cardinality(unpaid)],
      dueSoon     |-> [amount |-> SumAbsOf(v, due_soon), count |-> Cardinality(due_soon)]]

\* every 'recurringBills' get_overview can return
get_overview_recurring(v, t, caller) ==
  {recurring_bills(v, t, rec) : rec \in recurring(v, caller)}

\* ------------------------------------------------------------ get_balance
get_balance(v, caller) ==
  IF caller = NoUser
  THEN [error |-> "Unauthorized", currentBalance |-> 0, income |-> 0, expenses |-> 0]
  ELSE [error |-> "",
        currentBalance |-> IF v.profiles[caller].exists
                           THEN v.profiles[caller].balance ELSE 0,
        income |-> SumAmounts(v, {i \in TxIds :
                     /\ v.transactions[i].exists
                     /\ v.transactions[i].user_id = caller
                     /\ v.transactions[i].amount > 0}),
        expenses |-> ABS(SumAmounts(v, {i \in TxIds :
                     /\ v.transactions[i].exists
                     /\ v.transactions[i].user_id = caller
                     /\ v.transactions[i].amount < 0}))]

\* -------------------------------------------------- get_overview: balance
get_overview_balance_of_the_month(v, t, caller) ==
  IF caller = NoUser
  THEN [error |-> "Unauthorized", income |-> 0, expenses |-> 0, current |-> 0]
  ELSE IF ~v.profiles[caller].exists
  THEN [error |-> "Profile not found", income |-> 0, expenses |-> 0, current |-> 0]
  ELSE [error |-> "",
        income |-> SumAmounts(v, {i \in TxIds :
                     /\ v.transactions[i].exists
                     /\ v.transactions[i].user_id = caller
                     /\ v.transactions[i].amount > 0
                     /\ v_in_current_month(v.transactions[i].date, t)}),
        expenses |-> ABS(SumAmounts(v, {i \in TxIds :
                     /\ v.transactions[i].exists
                     /\ v.transactions[i].user_id = caller
                     /\ v.transactions[i].amount < 0
                     /\ v_in_current_month(v.transactions[i].date, t)})),
        current |-> v.profiles[caller].balance]

\* 'balance' of get_overview at time t
get_overview_balance(v, t, caller) ==
  IF caller = NoUser
  THEN [error |-> "Unauthorized", income |-> 0, expenses |-> 0, current |-> 0]
  ELSE IF ~v.profiles[caller].exists
  THEN [error |-> "Profile not found", income |-> 0, expenses |-> 0, current |-> 0]
  ELSE [error |-> "",
        income |-> SumAmounts(v, {i \in TxIds :
                     /\ v.transactions[i].exists
                     /\ v.transactions[i].user_id = caller
                     /\ v.transactions[i].amount > 0}),
        expenses |-> ABS(SumAmounts(v, {i \in TxIds :
                     /\ v.transactions[i].exists
                     /\ v.transactions[i].user_id = caller
                     /\ v.transactions[i].amount < 0})),
        current |-> v.profiles[caller].balance]

\* ------------------------------------- get_overview: pots, transactions
PotsLimit == 4

RecentLimit == 5

\* SELECT * FROM pots WHERE user_id = v_user_id
PotsOfUser(v, v_user_id) ==
  {p \in DOMAIN v.pots : v.pots[p].exists /\ v.pots[p].user_id = v_user_id}

\* ORDER BY created_at: the orders in which the database may return the pots
\* S; rows created at one instant come in any order
OrderByCreatedAt(v, S) ==
  {o \in Perms(S) :
     \A a, b \in 1 .. Len(o) :
       a < b => v.pots[o[a]].created_at <= v.pots[o[b]].created_at}

RECURSIVE SumOfTotals(_, _)
SumOfTotals(v, S) ==
  IF S = {} THEN 0
  ELSE LET p == CHOOSE x \in S : TRUE
       IN v.pots[p].total + SumOfTotals(v, S \ {p})

\* to_jsonb(p) || jsonb_build_object('percentage', ..., 'remaining', ...);
\* the targets of the model divide 100 * total
PotItem(v, p) ==
  [total      |-> v.pots[p].total,
   target     |-> v.pots[p].target,
   id         |-> p,
   remaining  |-> v.pots[p].target - v.pots[p].total,
   percentage |-> IF v.pots[p].target > 0
                  THEN (v.pots[p].total * 100) \div v.pots[p].target ELSE 0]

get_overview_pots_saved_in_the_items(v, v_user_id, o) ==
  [totalSaved |-> SumOfTotals(v, {o[k] : k \in 1 .. Min(PotsLimit, Len(o))}),
   items      |-> [k \in 1 .. Min(PotsLimit, Len(o)) |-> PotItem(v, o[k])]]

\* 'pots' of get_overview when the database returns the caller's pots in
\* the order o
get_overview_pots(v, v_user_id, o) ==
  [totalSaved |-> SumOfTotals(v, PotsOfUser(v, v_user_id)),
   items      |-> [k \in 1 .. Min(PotsLimit, Len(o)) |-> PotItem(v, o[k])]]

\* 'transactions.recent' of get_overview when the database returns the
\* caller's transactions in the order o of ORDER BY date DESC
get_overview_recent(v, v_user_id, o) == SubSeq(o, 1, Min(RecentLimit, Len(o)))

TransactionsOfUser(v, v_user_id) ==
  {i \in DOMAIN v.transactions :
     v.transactions[i].exists /\ v.transactions[i].user_id = v_user_id}

\* every 'pots' and 'transactions.recent' get_overview can return
GetOverviewPots(v, v_user_id) ==
  {get_overview_pots(v, v_user_id, o) :
     o \in OrderByCreatedAt(v, PotsOfUser(v, v_user_id))}

GetOverviewRecent(v, v_user_id) ==
  {get_overview_recent(v, v_user_id, o) :
     o \in OrderBy(v, TransactionsOfUser(v, v_user_id), "date", FALSE)}

\* ------------------------------------------- get_budgets: latest_transactions
LatestLimit == 3

\* the rows of the subquery without the test of the amount (a mutant)
BudgetExpenses_of_any_sign(v, v_user_id, category) ==
  {i \in DOMAIN v.transactions :
     /\ v.transactions[i].exists
     /\ v.transactions[i].user_id = v_user_id
     /\ v.transactions[i].category = category}

\* WHERE user_id = v_user_id AND category = b.category AND amount < 0
BudgetExpenses(v, v_user_id, category) ==
  {i \in DOMAIN v.transactions :
     /\ v.transactions[i].exists
     /\ v.transactions[i].user_id = v_user_id
     /\ v.transactions[i].category = category
     /\ v.transactions[i].amount < 0}

\* ORDER BY date DESC LIMIT 3 of the rows the database returns in the order o
latest_transactions(o) == SubSeq(o, 1, Min(LatestLimit, Len(o)))

\* every 'latest_transactions' get_budgets can return for a budget of the
\* category: jsonb_agg(to_jsonb(t) ORDER BY t.date DESC) over the limited rows
LatestTransactions(v, v_user_id, category) ==
  UNION {OrderBy(v, {latest_transactions(o)[k] :
                       k \in 1 .. Len(latest_transactions(o))}, "date", FALSE) :
           o \in OrderBy(v, BudgetExpenses(v, v_user_id, category), "date", FALSE)}

\* --------------------------------------------------------------- getOverview
get_overview_error_profile_first(v, caller) ==
  IF caller = NoUser \/ ~v.profiles[caller].exists THEN "Profile not found"
  ELSE ""

\* the error value of get_overview: the caller, then the profile
get_overview_error(v, caller) ==
  IF caller = NoUser THEN "Unauthorized"
  ELSE IF ~v.profiles[caller].exists THEN "Profile not found"
  ELSE ""

\* getOverview of the client: the error value is thrown, and else the data
\* are returned; of the data the balance and the budgets are kept
getOverview(v, t, caller) ==
  IF get_overview_error(v, caller) # ""
  THEN [data |-> NULL, thrown |-> get_overview_error(v, caller)]
  ELSE [data   |-> [budgets |-> get_overview_budgets(v, t, caller).budgets,
                    balance |-> get_overview_balance(v, t, caller)],
        thrown |-> ""]

\* ------------------------------------------------- reads through the tables
\* supabase.from('transactions').select('*') under "Users can CRUD own
\* transactions"
SelectTransactions(v, caller) == [i \in TxIds |-> OwnTransaction(v, i, caller)]

\* supabase.from('pots').select('*') under "Users can CRUD own pots"
SelectPots(v, caller) == [p \in PotIds |-> SelectOwnPot(v, p, caller)]

\* supabase.from('profiles').select('*') under "Users can view own profile"
SelectProfiles(v, caller) ==
  [u \in Users |-> IF u = caller THEN v.profiles[u] ELSE NoRow]

\* ------------------------------------------------------------- statements
FirstPc(op) ==
  IF op \in {"pot_deposit", "pot_withdraw", "delete_pot"} THEN "select_pot"
  ELSE "statement"

\* the statement at pc of request req, run on the rows v it sees at time t
Stmt(req, pc, loc, v, t) ==
  CASE req.op = "pot_deposit"       -> pot_deposit(pc, req, loc, v)
    [] req.op = "pot_withdraw"      -> pot_withdraw(pc, req, loc, v)
    [] req.op = "delete_pot"        -> delete_pot(pc, req, loc, v)
    [] req.op = "createPot"         -> createPot(pc, req, loc, v, t)
    [] req.op = "createTransaction" -> createTransaction(pc, req, loc, v, t)
    [] req.op = "updateTransaction" -> updateTransaction(pc, req, loc, v, t)
    [] req.op = "deleteTransaction" -> deleteTransaction(pc, req, loc, v, t)
    [] req.op = "createBudget"      -> createBudget(pc, req, loc, v)
    [] req.op = "updateBudget"      -> updateBudget(pc, req, loc, v)
    [] req.op = "deleteBudget"      -> deleteBudget(pc, req, loc, v)
    [] req.op = "updatePot"         -> updatePot(pc, req, loc, v)

\* a request that runs alone: every statement to the end, then the commit
\* (or, after an exception, the rollback)
RECURSIVE RunFrom(_, _, _, _, _, _)
RunFrom(req, pc, loc, db, ws, t) ==
  LET st == Stmt(req, pc, loc, ApplyWrites(db, ws), t)
  IN IF st.pc = "done"
     THEN [db  |-> IF st.abort THEN db ELSE ApplyWrites(db, ws \o st.w),
           res |-> st.res]
     ELSE RunFrom(req, st.pc, st.loc, db, ws \o st.w, t)

Handle(req, db, t) == RunFrom(req, FirstPc(req.op), NoLocals, db, <<>>, t)

\* ================================================ requests that run alone
\* the balance of account u, 0 when it has no profile row
BalanceIn(v, u) == IF v.profiles[u].exists THEN v.profiles[u].balance ELSE 0

Call(req) ==
  LET r == Handle(req, DB, now)
  IN /\ profiles'     = r.db.profiles
     /\ pots'         = r.db.pots
     /\ transactions' = r.db.transactions
     /\ budgets'      = r.db.budgets
     /\ last'         = [op |-> req.op, error |-> r.res.error,
                          delta |-> IF req.caller = NoUser THEN 0
                                    ELSE BalanceIn(r.db, req.caller)
                                         - BalanceIn(DB, req.caller)]
     /\ UNCHANGED <<now, sess, start, authvars>>

PotDeposit(caller, pot_id, amount) == Call(DepositReq(caller, pot_id, amount))

PotWithdraw(caller, pot_id, amount) == Call(WithdrawReq(caller, pot_id, amount))

DeletePot(caller, pot_id) == Call(DeleteReq(caller, pot_id))

\* ------------------------------------------- the pot-delete edge function
undefined == "undefined"

\* a request: the Authorization header (the caller whose token it carries,
\* NoUser for the anon key, null when the header is absent) and the body
HttpReq(authHeader, body) == [authHeader |-> authHeader, body |-> body]

\* a body: JSON that is an object with the members potId and id, the JSON
\* text null, or text that is not JSON
Body(kind, potId, id) == [id |-> id, kind |-> kind, potId |-> potId]

Response(status, success, error) ==
  [error |-> error, status |-> status, success |-> success]

Answer(db, called, response) ==
  [db |-> db, called |-> called, response |-> response]

\* Deno.serve handler of pot-delete. fault is what the rpc call does besides
\* running delete_pot: "none", "error" (it returns an error) or "throw".
pot_delete(req, db, t, fault) ==
  IF req.authHeader = null
  THEN Answer(db, FALSE, Response(401, FALSE, "Missing authorization header"))
  ELSE IF req.body.kind = "null"
  THEN \* body is null: body.potId throws a TypeError, caught at the end
       Answer(db, FALSE, Response(500, FALSE, "TypeError"))
  ELSE LET potId == IF req.body.kind = "invalid" THEN undefined
                    ELSE IF req.body.potId # undefined THEN req.body.potId
                    ELSE req.body.id
       IN IF potId \in {undefined, ""}
          THEN Answer(db, FALSE, Response(400, FALSE, "Missing pot ID"))
          ELSE CASE fault = "throw" ->
                      Answer(db, TRUE, Response(500, FALSE, "thrown"))
                 [] fault = "error" ->
                      Answer(db, TRUE, Response(400, FALSE, "error.message"))
                 [] OTHER ->
                      LET r == Handle(DeleteReq(req.authHeader, potId), db, t)
                      IN IF r.res.error # ""
                         THEN Answer(r.db, TRUE, Response(400, FALSE, r.res.error))
                         ELSE Answer(r.db, TRUE, Response(200, TRUE, undefined))

\* supabase.functions.invoke followed by invokeEdgeFunction: what the call
\* throws (null when it returns) for a response
invokeEdgeFunction(response) ==
  IF response.status \notin 200 .. 299 THEN "FunctionsHttpError"
  ELSE IF response.error # undefined THEN response.error
  ELSE null

\* what deletePot throws for a response, null when it returns success
deletePot(response) ==
  IF invokeEdgeFunction(response) # null THEN invokeEdgeFunction(response)
  ELSE IF ~response.success THEN "Failed to delete pot"
  ELSE null

\* a request to the pot-delete function
PotDelete(authHeader, body, fault) ==
  LET r == pot_delete(HttpReq(authHeader, body), DB, now, fault)
      c == IF authHeader \in Users THEN authHeader ELSE NoUser
  IN /\ profiles'     = r.db.profiles
     /\ pots'         = r.db.pots
     /\ transactions' = r.db.transactions
     /\ budgets'      = r.db.budgets
     /\ last'         = [op |-> "pot-delete",
                          error |-> deletePot(r.response),
                          delta |-> IF c = NoUser THEN 0
                                    ELSE BalanceIn(r.db, c) - BalanceIn(DB, c)]
     /\ UNCHANGED <<now, sess, start, authvars>>

\* the theme the client picks for a new row
ThemeOf(id) ==
  CASE id \in {"p1", "b1"} -> "Green"
    [] id \in {"p2", "b2"} -> "Yellow"
    [] id = "p3"           -> "Cyan"
    [] id = "p4"           -> "Navy"
    [] OTHER               -> "Red"

PotData(target, theme) == [target |-> target, theme |-> theme]

CreatePotWith(caller, pot_id, data) ==
  /\ ~pots[pot_id].exists
  /\ Call(Req("createPot", caller, pot_id, NULL, "t1", data))

CreatePot(caller, pot_id) ==
  CreatePotWith(caller, pot_id, PotData(Some(2), Some(ThemeOf(pot_id))))

CreateTransaction(caller, id, data) ==
  /\ ~transactions[id].exists
  /\ Call(Req("createTransaction", caller, "p1", NULL, id, data))

UpdateTransaction(caller, id, data) ==
  Call(Req("updateTransaction", caller, "p1", NULL, id, data))

DeleteTransaction(caller, id) ==
  Call(Req("deleteTransaction", caller, "p1", NULL, id, NoPatch))

BudgetData(k, m, th) == [theme |-> th, category |-> k, maximum |-> m]

CreateBudgetWith(caller, id, data) ==
  /\ ~budgets[id].exists
  /\ Call(Req("createBudget", caller, "p1", NULL, id, data))

CreateBudget(caller, id, k, m) ==
  CreateBudgetWith(caller, id, BudgetData(Some(k), Some(m), Some(ThemeOf(id))))

UpdateBudget(caller, id, data) ==
  Call(Req("updateBudget", caller, "p1", NULL, id, data))

DeleteBudget(caller, id) ==
  Call(Req("deleteBudget", caller, "p1", NULL, id, NoPatch))

UpdatePotWith(caller, pot_id, data) ==
  Call(Req("updatePot", caller, pot_id, NULL, "t1", data))

UpdatePot(caller, pot_id) == UpdatePotWith(caller, pot_id, PotData(NULL, NULL))

FetchUserWithProfile(caller, userId, readFails) ==
  LET db == ApplyWrites(DB, fetchUserWithProfile(DB, caller, userId, readFails))
  IN /\ profiles' = db.profiles
     /\ last' = [op |-> "fetchUserWithProfile", error |-> "",
                 delta |-> IF caller = NoUser THEN 0
                           ELSE BalanceIn(db, caller) - BalanceIn(DB, caller)]
     /\ UNCHANGED <<now, pots, transactions, budgets, sess, start, authvars>>

\* the read operations: STABLE functions and selects
ReadOps ==
  {"get_budgets", "get_overview", "get_balance", "getTransactions",
   "getRecurringBills"}

\* the row writes of a read operation: none
ReadWrites(op, v, t, caller) == <<>>

ReadError(op, v, t, caller) ==
  CASE op = "get_budgets"  -> get_budgets(v, t, caller).error
    [] op = "get_overview" -> get_overview_error(v, caller)
    [] op = "get_balance"  -> get_balance(v, caller).error
    [] OTHER               -> ""

Read(op, caller) ==
  LET db == ApplyWrites(DB, ReadWrites(op, DB, now, caller))
  IN /\ profiles'     = db.profiles
     /\ pots'         = db.pots
     /\ transactions' = db.transactions
     /\ budgets'      = db.budgets
     /\ last'         = [op |-> op, error |-> ReadError(op, DB, now, caller),
                          delta |-> IF caller = NoUser THEN 0
                                    ELSE BalanceIn(db, caller) - BalanceIn(DB, caller)]
     /\ UNCHANGED <<now, sess, start, authvars>>

\* ============================================================ AuthProvider

\* the calls of the auth context that run at the same time
Calls == {"checkAuth", "login", "register", "logout", "refreshUser", "handler"}

\* where a call is: idle, or waiting for the promise named by pc; id is the
\* user it signs in or loads
Call_(pc, id) == [id |-> id, pc |-> pc]

IdleCall == Call_("idle", null)

Event(e, id) == <<e, id>>

\* useState(null), useState(true), useRef(null), a new QueryClient; the
\* effect has called checkAuth() and subscribed to onAuthStateChange
Mounted ==
  /\ user = null
  /\ isLoading = TRUE
  /\ previousUserIdRef = null
  /\ cache = {}
  /\ events = {}
  /\ calls = [c \in Calls |->
                IF c = "checkAuth" THEN Call_("getSession", null)
                ELSE IdleCall]

\* the state of the provider as a value
Provider ==
  [user |-> user, isLoading |-> isLoading,
   previousUserIdRef |-> previousUserIdRef, cache |-> cache]

SetProvider(S) ==
  /\ user' = S.user
  /\ isLoading' = S.isLoading
  /\ previousUserIdRef' = S.previousUserIdRef
  /\ cache' = S.cache

\* clearUserData: queryClient.clear()
clearUserData(S) == [S EXCEPT !.cache = {}]

\* a loadUser that clears the cache whenever the user it sets is not the
\* one shown (a mutant)
loadUser_clearing_on_every_change(S, profileUser) ==
  IF profileUser # null
  THEN [(IF S.user # profileUser THEN clearUserData(S) ELSE S)
          EXCEPT !.previousUserIdRef = profileUser, !.user = profileUser]
  ELSE [clearUserData(S) EXCEPT !.previousUserIdRef = null, !.user = null]

\* loadUser after fetchUserWithProfile has returned profileUser
loadUser(S, profileUser) ==
  IF profileUser # null
  THEN [(IF S.previousUserIdRef # null /\ S.previousUserIdRef # profileUser
         THEN clearUserData(S) ELSE S)
          EXCEPT !.previousUserIdRef = profileUser, !.user = profileUser]
  ELSE [S EXCEPT !.previousUserIdRef = null, !.user = null]

\* SIGNED_OUT in the handler, and both branches of logout
signedOut(S) ==
  [clearUserData(S) EXCEPT !.previousUserIdRef = null, !.user = null]

\* the calls with no finally block
afterLoadUser_without_finally(c, S) ==
  S

\* what call c does after its loadUser has returned: the finally blocks
afterLoadUser(c, S) ==
  IF c \in {"checkAuth", "login", "register"}
  THEN [S EXCEPT !.isLoading = FALSE] ELSE S

\* the isAuthenticated field of the context value: !!user
isAuthenticated ==
  user # null

\* a query of a page runs for the user shown and its data is cached
Fetch ==
  /\ user # null
  /\ cache' = cache \cup {user}
  /\ UNCHANGED <<user, isLoading, previousUserIdRef, session, events, calls, dbvars>>

\* supabase.auth.getSession() of checkAuth or refreshUser resolves or rejects
GetSessionSettles(c) ==
  /\ calls[c].pc = "getSession"
  /\ \/ /\ session # null
        /\ calls' = [calls EXCEPT ![c] = Call_("getUser", session)]
        /\ UNCHANGED <<user, isLoading, previousUserIdRef, cache>>
     \/ /\ session = null
        /\ calls' = [calls EXCEPT ![c] = IdleCall]
        /\ SetProvider(IF c = "checkAuth"
                       THEN [Provider EXCEPT !.previousUserIdRef = null,
                                             !.user = null, !.isLoading = FALSE]
                       ELSE [Provider EXCEPT !.user = null])
     \/ /\ calls' = [calls EXCEPT ![c] = IdleCall]
        /\ SetProvider(IF c = "checkAuth"
                       THEN [Provider EXCEPT !.previousUserIdRef = null,
                                             !.user = null, !.isLoading = FALSE]
                       ELSE Provider)
  /\ UNCHANGED <<session, events, dbvars>>

\* supabase.auth.getUser() of fetchUserWithProfile resolves: without a
\* session fetchUserWithProfile returns null; with the session of another
\* user the select and the upsert of the profile are refused by the policies
\* and it returns null as well
GetUserSettles(c) ==
  /\ calls[c].pc = "getUser"
  /\ IF session # calls[c].id
     THEN /\ calls' = [calls EXCEPT ![c] = IdleCall]
          /\ SetProvider(afterLoadUser(c, loadUser(Provider, null)))
     ELSE /\ calls' = [calls EXCEPT ![c] = Call_("select", calls[c].id)]
          /\ UNCHANGED <<user, isLoading, previousUserIdRef, cache>>
  /\ UNCHANGED <<session, events, dbvars>>

\* the select (and upsert) of the profile, sent with the token of the user,
\* resolves with the row or with an error
SelectSettles(c) ==
  /\ calls[c].pc = "select"
  /\ \E profileUser \in {null, calls[c].id} :
       SetProvider(afterLoadUser(c, loadUser(Provider, profileUser)))
  /\ calls' = [calls EXCEPT ![c] = IdleCall]
  /\ UNCHANGED <<session, events, dbvars>>

\* the person at the page starts one thing at a time
Forms == {"login", "register", "logout", "refreshUser"}

FormsIdle == \A c \in Forms : calls[c].pc = "idle"

\* login(data) and register(data) up to their first await
SignIn(c, id) ==
  /\ FormsIdle
  /\ SetProvider(clearUserData([Provider EXCEPT !.isLoading = TRUE]))
  /\ calls' = [calls EXCEPT ![c] = Call_("signIn", id)]
  /\ UNCHANGED <<session, events, dbvars>>

\* signInWithPassword or signUp resolves with the user, or with an error
SignInSettles(c) ==
  /\ calls[c].pc = "signIn"
  /\ \/ /\ session' = calls[c].id
        /\ events' = events \cup {Event("SIGNED_IN", calls[c].id)}
        /\ calls' = [calls EXCEPT ![c] = Call_("getUser", calls[c].id)]
        /\ UNCHANGED <<user, isLoading, previousUserIdRef, cache>>
     \/ /\ calls' = [calls EXCEPT ![c] = IdleCall]
        /\ SetProvider([Provider EXCEPT !.isLoading = FALSE])
        /\ UNCHANGED <<session, events>>
  /\ UNCHANGED dbvars

\* loginWithGoogle: the page is left for the provider's
LoginWithGoogle ==
  /\ SetProvider(clearUserData(Provider))
  /\ UNCHANGED <<session, events, calls, dbvars>>

\* logout up to its await
Logout ==
  /\ FormsIdle
  /\ SetProvider([Provider EXCEPT !.isLoading = TRUE])
  /\ calls' = [calls EXCEPT !["logout"] = Call_("signOut", null)]
  /\ UNCHANGED <<session, events, dbvars>>

\* supabase.auth.signOut() resolves, or rejects
SignOutSettles ==
  /\ calls["logout"].pc = "signOut"
  /\ \/ /\ session' = null
        /\ events' = events \cup {Event("SIGNED_OUT", null)}
     \/ UNCHANGED <<session, events>>
  /\ SetProvider([signedOut(Provider) EXCEPT !.isLoading = FALSE])
  /\ calls' = [calls EXCEPT !["logout"] = IdleCall]
  /\ UNCHANGED dbvars

\* refreshUser up to its await
RefreshUser ==
  /\ FormsIdle
  /\ calls' = [calls EXCEPT !["refreshUser"] = Call_("getSession", null)]
  /\ UNCHANGED <<user, isLoading, previousUserIdRef, cache, session, events, dbvars>>

\* the callback of onAuthStateChange receives an event
Handler ==
  \E e \in events :
    /\ events' = events \ {e}
    /\ IF e[1] = "SIGNED_IN"
       THEN /\ calls["handler"].pc = "idle"
            /\ calls' = [calls EXCEPT !["handler"] = Call_("getUser", e[2])]
            /\ UNCHANGED <<user, isLoading, previousUserIdRef, cache>>
       ELSE /\ SetProvider(signedOut(Provider))
            /\ UNCHANGED calls
    /\ UNCHANGED <<session, dbvars>>

\* the session changes in another tab of the browser, which supabase.auth
\* reports to this one
OtherTab(id) ==
  /\ events = {} /\ session # id
  /\ session' = id
  /\ events' = events \cup {Event(IF id = null THEN "SIGNED_OUT" ELSE "SIGNED_IN", id)}
  /\ UNCHANGED <<user, isLoading, previousUserIdRef, cache, calls, dbvars>>

\* ----------------------------------------------------------------- inputs
Callers        == Users \cup {NoUser}
PotAmounts     == {NULL, Some(0), Some(1), Some(2)}
TxAmounts      == {-2, 3}
Names          == {"Acme", "Bolt"}
Tx(a, d, c)    == [date |-> Some(d), amount |-> Some(a), category |-> Some(c),
                   name |-> Some("Acme"), recurring |-> NULL]
\* a recurring transaction of vendor n
Bill(n, a, d)  == [date |-> Some(d), amount |-> Some(a), category |-> Some("Bills"),
                   name |-> Some(n), recurring |-> Some(TRUE)]
TxPatches      == ([date     : {NULL} \cup {Some(d) : d \in Dates},
                    amount   : {NULL} \cup {Some(a) : a \in TxAmounts},
                    category : {NULL}, name : {NULL}, recurring : {NULL}]
                   \ {NoPatch})
                  \cup {[NoPatch EXCEPT !.category = Some("Bills")]}

IdleSession == [ws |-> <<>>, pc |-> "idle", loc |-> NoLocals, res |-> NoResult,
                req |-> NoReq]

\* the database as the migrations create it, at the start of some month
Init ==
  /\ now \in {t \in Times : t = v_month_start(t)}
  /\ profiles = [u \in Users |-> ProfileRow(0)]
  /\ pots = [p \in PotIds |-> NoRow]
  /\ transactions = [i \in TxIds |-> NoRow]
  /\ budgets = [i \in BudgetIds |-> NoRow]
  /\ last = [op |-> "none", error |-> "", delta |-> 0]
  /\ sess = [s \in Sessions |-> IdleSession]
  /\ Mounted /\ session = null
  /\ start = DB

\* The ledger: one account writes transactions of every date, in a month
\* that stays the current one; other callers try its rows.
Owner == "u1"

Next ==
  \/ \E a \in TxAmounts, d \in Dates, i \in TxIds :
        CreateTransaction(Owner, i, Tx(a, d, "General"))
  \/ \E i \in TxIds, d \in TxPatches : UpdateTransaction(Owner, i, d)
  \/ \E c \in Callers \ {Owner}, i \in TxIds :
        UpdateTransaction(c, i, [NoPatch EXCEPT !.amount = Some(3)])
  \/ \E c \in Callers, i \in TxIds : DeleteTransaction(c, i)

Spec == Init /\ [][Next]_vars

\* The pots: two accounts and an unauthenticated caller, every pot id and
\* every amount; each account has one transaction, an income or an expense
\* dated now or in the next month, which it creates and deletes.
TxOf(u) == IF u = "u1" THEN "t1" ELSE "t2"

InitPots == Init /\ now = 0

NextPots ==
  \/ \E c \in Callers, p \in PotIds, a \in PotAmounts : PotDeposit(c, p, a)
  \/ \E c \in Callers, p \in PotIds, a \in PotAmounts : PotWithdraw(c, p, a)
  \/ \E c \in Callers, p \in PotIds : DeletePot(c, p)
  \/ \E c \in Callers, p \in PotIds : CreatePot(c, p)
  \/ \E c \in Users, a \in TxAmounts, d \in {now, now + MonthLen} :
        CreateTransaction(c, TxOf(c), Tx(a, d, "General"))
  \/ \E c \in Users : DeleteTransaction(c, TxOf(c))

SpecPots == InitPots /\ [][NextPots]_vars

\* The tenants: two accounts that both own a transaction of some category
\* and a pot, and call each other's rows.
PotOf(u) == IF u = "u1" THEN "p1" ELSE "p2"

NextTenants ==
  \/ \E c \in Users, a \in TxAmounts, k \in Categories :
        CreateTransaction(c, TxOf(c), Tx(a, now, k))
  \/ \E c \in Callers, i \in TxIds : DeleteTransaction(c, i)
  \/ \E c \in Users : CreatePot(c, PotOf(c))
  \/ \E c \in Users, p \in PotIds : PotDeposit(c, p, Some(1))

SpecTenants == InitPots /\ [][NextTenants]_vars

\* The budgets: two accounts with budgets of every category and expenses
\* and incomes dated in the current month, in its final second and in the
\* next month.
Maxima == {1, 3}

BudgetPatches ==
  {BudgetData(Some(k), NULL, NULL) : k \in Categories}
    \cup {BudgetData(NULL, Some(m), NULL) : m \in Maxima}

NextBudgets ==
  \/ \E i \in BudgetIds, k \in Categories, m \in Maxima :
        CreateBudget(Owner, i, k, m)
  \/ \E k \in Categories : CreateBudget("u2", "b2", k, 1)
  \/ \E c \in Callers, i \in BudgetIds, d \in BudgetPatches : UpdateBudget(c, i, d)
  \/ \E c \in Callers, i \in BudgetIds : DeleteBudget(c, i)
  \/ \E i \in TxIds, a \in TxAmounts, k \in Categories,
        d \in {now, now + MonthLen - 1, now + MonthLen} :
        CreateTransaction(Owner, i, Tx(a, d, k))
  \/ CreateTransaction("u2", "t2", Tx(-2, now, "Bills"))
  \/ \E c \in Users, i \in TxIds : DeleteTransaction(c, i)

SpecBudgets == InitPots /\ [][NextBudgets]_vars

\* The bills: on the first or the second day of a month one account has
\* recurring transactions of two vendors, dated in the month before, in this
\* month up to its final instant, and in the next month; another account has
\* a bill of its own.
DayStart(m, d) == m * MonthLen + (d - 1) * TicksPerDay

BillAmounts == {-2, -1, 3}

BillDates ==
  {DayStart(0, d) : d \in {1, 2, 3, DaysPerMonth - 1, DaysPerMonth}}
    \cup {DayStart(1, 1), v_month_end(MonthLen), CURRENT_MONTH_END(MonthLen),
          DayStart(2, 1)}

InitBills ==
  /\ Init
  /\ now \in {DayStart(1, 1), DayStart(1, 2)}

NextBills ==
  \/ \E i \in TxIds, n \in Names, a \in BillAmounts, d \in BillDates :
        CreateTransaction(Owner, i, Bill(n, a, d))
  \/ \E i \in TxIds : CreateTransaction(Owner, i, Tx(-2, now, "General"))
  \/ CreateTransaction("u2", "t2", Bill("Acme", -2, now))
  \/ \E c \in Users, i \in TxIds : DeleteTransaction(c, i)

SpecBills == InitBills /\ [][NextBills]_vars

\* The account: one account with a transaction, a pot of a total up to
\* MaxTotal and a budget loads its profile, with reads that succeed and reads
\* that fail; another caller loads the same profile.
MaxTotal == 2

NextAccount ==
  \/ \E a \in TxAmounts : CreateTransaction(Owner, "t1", Tx(a, now, "General"))
  \/ DeleteTransaction(Owner, "t1")
  \/ CreatePot(Owner, "p1")
  \/ UpdatePot(Owner, "p1")
  \/ /\ pots["p1"].exists => pots["p1"].total < MaxTotal
     /\ PotDeposit(Owner, "p1", Some(1))
  \/ PotWithdraw(Owner, "p1", Some(1))
  \/ DeletePot(Owner, "p1")
  \/ \E k \in Categories : CreateBudget(Owner, "b1", k, 1)
  \/ \E d \in BudgetPatches : UpdateBudget(Owner, "b1", d)
  \/ DeleteBudget(Owner, "b1")
  \/ \E c \in Callers, readFails \in BOOLEAN :
        FetchUserWithProfile(c, Owner, readFails)

SpecAccount == InitPots /\ [][NextAccount]_vars

\* The overview: an account with up to five pots, created one after the
\* other in any order of their ids, or with up to six transactions of three
\* dates; another account has a pot, a transaction and a budget of its own.
OverviewPotIds == {"p1", "p2", "p3", "p4", "p5"}

OverviewTxIds == {"t1", "t2", "t3", "t4", "t5", "t6"}

\* the target the client gives to a new pot
TargetOf(p) == IF p = "p1" THEN 0 ELSE IF p = "p2" THEN 4 ELSE 2

InitOverview ==
  /\ now = 0
  /\ profiles = [u \in Users |-> ProfileRow(0)]
  /\ pots = [p \in OverviewPotIds |-> NoRow]
  /\ transactions = [i \in OverviewTxIds |-> NoRow]
  /\ budgets = [i \in BudgetIds |-> NoRow]
  /\ last = [op |-> "none", error |-> "", delta |-> 0]
  /\ sess = [s \in Sessions |-> IdleSession]
  /\ Mounted /\ session = null
  /\ start = DB

NoPots == \A p \in DOMAIN pots : ~pots[p].exists

NoBudgets == \A i \in DOMAIN budgets : ~budgets[i].exists

FewTransactions == \A i \in DOMAIN transactions \ {"t1"} : ~transactions[i].exists

\* the clock has advanced since the last pot was created
AfterLastPot == \A p \in DOMAIN pots : pots[p].exists => pots[p].created_at < now

\* time passes between two requests
Later ==
  /\ ~AfterLastPot
  /\ now < Cardinality(OverviewPotIds)
  /\ now' = now + 1
  /\ UNCHANGED <<profiles, pots, transactions, budgets, last, sess, start, authvars>>

NextOverview ==
  \/ /\ FewTransactions /\ NoBudgets /\ AfterLastPot
     /\ \E p \in OverviewPotIds :
          CreatePotWith(Owner, p, PotData(Some(TargetOf(p)), Some(ThemeOf(p))))
  \/ /\ FewTransactions /\ NoBudgets /\ AfterLastPot
     /\ CreatePotWith("u2", "p1", PotData(Some(2), Some("Green")))
  \/ Later
  \/ \E p \in {"p2", "p5"} : PotDeposit(Owner, p, Some(1))
  \/ NoBudgets /\ CreateTransaction(Owner, "t1", Tx(3, 0, "General"))
  \/ /\ NoPots /\ NoBudgets
     /\ IF transactions["t1"].exists THEN transactions["t1"].amount < 0 ELSE TRUE
     /\ \E i \in OverviewTxIds, d \in {0, 1, 2} :
          CreateTransaction(Owner, i, Tx(-2, d, "General"))
  \/ /\ NoPots /\ NoBudgets
     /\ CreateTransaction("u2", "t6", Tx(-2, 2, "General"))
  \/ NoPots /\ FewTransactions /\ CreateBudget(Owner, "b1", "Bills", 1)
  \/ NoPots /\ FewTransactions /\ CreateBudget("u2", "b2", "Bills", 1)

SpecOverview == InitOverview /\ [][NextOverview]_vars

\* The profiles: accounts of which some have no profile row yet write
\* transactions and load their profile, which creates the missing row.
InitProfiles ==
  /\ now = 0
  /\ profiles \in [Users -> {NoRow, ProfileRow(0)}]
  /\ pots = [p \in PotIds |-> NoRow]
  /\ transactions = [i \in TxIds |-> NoRow]
  /\ budgets = [i \in BudgetIds |-> NoRow]
  /\ last = [op |-> "none", error |-> "", delta |-> 0]
  /\ sess = [s \in Sessions |-> IdleSession]
  /\ Mounted /\ session = null
  /\ start = DB

NextProfiles ==
  \/ \E c \in Users, a \in TxAmounts, d \in {now, now + MonthLen} :
        CreateTransaction(c, TxOf(c), Tx(a, d, "General"))
  \/ \E c \in Users : DeleteTransaction(c, TxOf(c))
  \/ \E c \in Callers, u \in Users : FetchUserWithProfile(c, u, FALSE)

SpecProfiles == InitProfiles /\ [][NextProfiles]_vars

\* The rows: two accounts create, update and delete pots or budgets of two
\* themes, with targets and maxima below 0 as well, and one of them moves
\* money into its pots and out of them.
Themes == {"Green", "Yellow"}

PotPatches ==
  {PotData(Some(g), NULL) : g \in {-1, 0}}
    \cup {PotData(NULL, Some(th)) : th \in Themes}

RowBudgetPatches ==
  {BudgetData(Some(k), NULL, NULL) : k \in Categories}
    \cup {BudgetData(NULL, Some(m), NULL) : m \in {-1, 3}}
    \cup {BudgetData(NULL, NULL, Some(th)) : th \in Themes}

NextRows ==
  \/ /\ NoBudgets
     /\ \E p \in PotIds, g \in {-1, 2}, th \in Themes :
          CreatePotWith(Owner, p, PotData(Some(g), Some(th)))
  \/ NoBudgets /\ CreatePotWith("u2", "p2", PotData(Some(2), Some("Green")))
  \/ \E c \in Users, p \in PotIds, d \in PotPatches : UpdatePotWith(c, p, d)
  \/ \E p \in PotIds : DeletePot(Owner, p)
  \/ CreateTransaction(Owner, "t1", Tx(3, now, "General"))
  \/ \E p \in PotIds : PotDeposit(Owner, p, Some(2))
  \/ \E p \in PotIds, a \in {1, 3} : PotWithdraw(Owner, p, Some(a))
  \/ /\ NoPots
     /\ \E i \in BudgetIds, k \in Categories, m \in {-1, 1}, th \in Themes :
          CreateBudgetWith(Owner, i, BudgetData(Some(k), Some(m), Some(th)))
  \/ /\ NoPots
     /\ CreateBudgetWith("u2", "b2", BudgetData(Some("Bills"), Some(1), Some("Green")))
  \/ \E c \in Users, i \in BudgetIds, d \in RowBudgetPatches : UpdateBudget(c, i, d)
  \/ \E i \in BudgetIds : DeleteBudget(Owner, i)

SpecRows == InitPots /\ [][NextRows]_vars

\* The reads: one account with budgets writes transactions of two categories
\* dated in and after the current month; every caller reads in between.
NextReads ==
  \/ \E i \in TxIds, a \in TxAmounts, d \in {now, now + MonthLen}, k \in Categories :
        CreateTransaction(Owner, i, Tx(a, d, k))
  \/ \E i \in TxIds :
        UpdateTransaction(Owner, i, [NoPatch EXCEPT !.amount = Some(-2)])
  \/ \E i \in TxIds : DeleteTransaction(Owner, i)
  \/ \E k \in Categories : CreateBudget(Owner, "b1", k, 3)
  \/ \E op \in ReadOps, c \in {Owner, NoUser} : Read(op, c)

SpecReads == InitPots /\ [][NextReads]_vars

\* The budget lists: in the second month an account with a budget of Bills
\* has up to four expenses of Bills dated in the month before, now and one
\* instant later, and an income or an expense of another category; another
\* account has a budget and an expense of Bills of its own.
InitLatest ==
  /\ now = MonthLen
  /\ profiles = [u \in Users |-> ProfileRow(0)]
  /\ pots = [p \in PotIds |-> NoRow]
  /\ transactions = [i \in OverviewTxIds |-> NoRow]
  /\ budgets = [i \in BudgetIds |-> NoRow]
  /\ last = [op |-> "none", error |-> "", delta |-> 0]
  /\ sess = [s \in Sessions |-> IdleSession]
  /\ Mounted /\ session = null
  /\ start = DB

NextLatest ==
  \/ \E i \in {"t1", "t2", "t3", "t4"}, d \in {0, now, now + 1} :
        CreateTransaction(Owner, i, Tx(-2, d, "Bills"))
  \/ CreateTransaction(Owner, "t5", Tx(3, now + 1, "Bills"))
  \/ CreateTransaction(Owner, "t5", Tx(-2, now + 1, "General"))
  \/ CreateTransaction("u2", "t6", Tx(-2, now + 1, "Bills"))
  \/ \E i \in OverviewTxIds : DeleteTransaction(Owner, i)
  \/ CreateBudget(Owner, "b1", "Bills", 1)
  \/ CreateBudget("u2", "b2", "Bills", 1)
  \/ Read("get_budgets", Owner)

SpecLatest == InitLatest /\ [][NextLatest]_vars

\* The funds: one account with a pot writes transactions dated now, in the
\* last instant of the month and in the next month, patches their amounts
\* and dates, deletes them, and moves money to and from the pot.
FundDates == {now, v_month_start(now) + MonthLen - 1, now + MonthLen}

NextFunds ==
  \/ CreatePot(Owner, "p1")
  \/ \E a \in {1, 2} : PotDeposit(Owner, "p1", Some(a))
  \/ PotWithdraw(Owner, "p1", Some(1))
  \/ DeletePot(Owner, "p1")
  \/ \E i \in TxIds, a \in TxAmounts, d \in FundDates :
        CreateTransaction(Owner, i, Tx(a, d, "General"))
  \/ \E i \in TxIds, a \in TxAmounts :
        UpdateTransaction(Owner, i, [NoPatch EXCEPT !.amount = Some(a)])
  \/ \E i \in TxIds, d \in FundDates :
        UpdateTransaction(Owner, i, [NoPatch EXCEPT !.date = Some(d)])
  \/ \E i \in TxIds : DeleteTransaction(Owner, i)

SpecFunds == InitPots /\ [][NextFunds]_vars

\* The months: one account writes transactions dated in the first and in
\* the second month while the clock moves from the first month to the next.
MonthPasses ==
  /\ now + MonthLen \in Times
  /\ now' = now + MonthLen
  /\ UNCHANGED <<profiles, pots, transactions, budgets, last, sess, start, authvars>>

NextMonths ==
  \/ \E i \in TxIds, a \in TxAmounts, d \in {0, MonthLen} :
        CreateTransaction(Owner, i, Tx(a, d, "General"))
  \/ \E i \in TxIds, a \in TxAmounts :
        UpdateTransaction(Owner, i, [NoPatch EXCEPT !.amount = Some(a)])
  \/ \E i \in TxIds, d \in {0, MonthLen} :
        UpdateTransaction(Owner, i, [NoPatch EXCEPT !.date = Some(d)])
  \/ \E i \in TxIds : DeleteTransaction(Owner, i)
  \/ MonthPasses

SpecMonths == InitPots /\ [][NextMonths]_vars

\* =================================================== concurrent requests
\* One account, its pot p1 and its transactions; each session runs one
\* request.  Before the first request begins, calls that run alone bring the
\* database to the state the requests meet: an income of 3, the pot, money
\* in the pot.
Account == "u1"

AllIdle == \A s \in Sessions : sess[s].pc = "idle"

Running(s) == sess[s].pc \notin {"idle", "done"}

\* the rows a statement of session s sees: committed rows and its own writes
View(s) == ApplyWrites(DB, sess[s].ws)

\* the statement session s is at
NextStmt(s) == Stmt(sess[s].req, sess[s].pc, sess[s].loc, View(s), now)

\* the row locks session s holds until its commit
Held(s) == IF Running(s) THEN Locks(sess[s].ws) ELSE {}

\* session s waits for session o: its statement needs a row o has written
WaitsFor(s, o) == Running(s) /\ o # s /\ NextStmt(s).lk \cap Held(o) # {}

Blocked(s) == \E o \in Sessions : WaitsFor(s, o)

PotOps == {"pot_deposit", "pot_withdraw", "delete_pot"}
TxOps  == {"createTransaction", "updateTransaction", "deleteTransaction"}

ConcAmounts == {Some(1), Some(2)}

\* the requests that race
ConcReqs ==
  {DepositReq(Account, "p1", a) : a \in ConcAmounts}
    \cup {WithdrawReq(Account, "p1", a) : a \in ConcAmounts}
    \cup {DeleteReq(Account, "p1")}
    \cup {Req("createTransaction", Account, "p1", NULL, "t2",
              Tx(-2, now, "General"))}
    \cup {Req("updateTransaction", Account, "p1", NULL, "t1",
              [NoPatch EXCEPT !.amount = Some(-2)])}
    \cup {Req("deleteTransaction", Account, "p1", NULL, "t1", NoPatch)}

\* the setup: calls that run alone while no session has begun
Setup ==
  /\ AllIdle
  /\ \/ CreateTransaction(Account, "t1", Tx(3, now, "General"))
     \/ CreatePot(Account, "p1")
     \/ \E a \in ConcAmounts : PotDeposit(Account, "p1", a)

\* a session receives a request (gen_random_uuid() never draws an id twice)
Begin(s, req) ==
  /\ sess[s].pc = "idle"
  /\ req.op = "createTransaction" =>
       /\ ~transactions[req.id].exists
       /\ \A o \in Sessions : ~(sess[o].req.op = "createTransaction"
                                /\ sess[o].req.id = req.id)
  /\ sess' = [sess EXCEPT ![s] = [IdleSession EXCEPT !.pc = FirstPc(req.op),
                                                     !.req = req]]
  /\ start' = IF AllIdle THEN DB ELSE start
  /\ UNCHANGED <<now, profiles, pots, transactions, budgets, last, authvars>>

\* a statement that is not the last one of its request
Execute(s) ==
  /\ Running(s) /\ ~Blocked(s)
  /\ LET st == NextStmt(s)
     IN /\ st.pc # "done"
        /\ sess' = [sess EXCEPT ![s].pc = st.pc, ![s].loc = st.loc,
                                ![s].ws = @ \o st.w]
  /\ UNCHANGED <<now, profiles, pots, transactions, budgets, last, start, authvars>>

\* the last statement of a request and its commit, or, after an exception,
\* its rollback
Commit(s) ==
  /\ Running(s) /\ ~Blocked(s)
  /\ LET st == NextStmt(s)
         db == IF st.abort THEN DB ELSE ApplyWrites(DB, sess[s].ws \o st.w)
     IN /\ st.pc = "done"
        /\ profiles'     = db.profiles
        /\ pots'         = db.pots
        /\ transactions' = db.transactions
        /\ budgets'      = db.budgets
        /\ sess' = [sess EXCEPT ![s].pc = "done", ![s].ws = <<>>,
                                ![s].res = st.res]
  /\ UNCHANGED <<now, last, start, authvars>>

\* two sessions wait for each other: PostgreSQL aborts one of them
DeadlockAbort(s) ==
  /\ \E o \in Sessions : WaitsFor(s, o) /\ WaitsFor(o, s)
  /\ sess' = [sess EXCEPT ![s].pc = "done", ![s].ws = <<>>,
                          ![s].res = Error("deadlock detected")]
  /\ UNCHANGED <<now, profiles, pots, transactions, budgets, last, start, authvars>>

NextConc ==
  \/ Setup
  \/ \E s \in Sessions, req \in ConcReqs : Begin(s, req)
  \/ \E s \in Sessions : Execute(s)
  \/ \E s \in Sessions : Commit(s)
  \/ \E s \in Sessions : DeadlockAbort(s)

SpecConc == InitPots /\ [][NextConc]_vars

\* ========================================================= the auth context
\* A page that was opened with or without a session: its session check, and
\* then sign-ins, sign-outs, refreshes, queries and events in any order.
InitAuth ==
  /\ now = 0
  /\ profiles = [u \in Users |-> ProfileRow(0)]
  /\ pots = [p \in PotIds |-> NoRow]
  /\ transactions = [i \in TxIds |-> NoRow]
  /\ budgets = [i \in BudgetIds |-> NoRow]
  /\ last = [op |-> "none", error |-> "", delta |-> 0]
  /\ sess = [s \in Sessions |-> IdleSession]
  /\ start = DB
  /\ Mounted
  /\ session \in Users \cup {null}

Settle(c) ==
  \/ c \in {"checkAuth", "refreshUser"} /\ GetSessionSettles(c)
  \/ c \in {"login", "register"} /\ SignInSettles(c)
  \/ c = "logout" /\ SignOutSettles
  \/ c # "logout" /\ GetUserSettles(c)
  \/ c # "logout" /\ SelectSettles(c)

NextAuth ==
  \/ \E c \in Calls : Settle(c)
  \/ SignIn("login", "u1")
  \/ SignIn("register", "u2")
  \/ LoginWithGoogle
  \/ Logout
  \/ RefreshUser
  \/ Handler
  \/ \E id \in Users \cup {null} : OtherTab(id)
  \/ Fetch

SpecAuth == InitAuth /\ [][NextAuth]_vars

\* The requests to pot-delete: any header, any body, any fate of the rpc.
Headers == Callers \cup {null}
Members == PotIds \cup {undefined, ""}
Bodies ==
  {Body("object", x, y) : x \in Members, y \in Members}
    \cup {Body("null", undefined, undefined), Body("invalid", undefined, undefined)}
Faults == {"none", "error", "throw"}

NextEdge ==
  \/ \E c \in Users, p \in PotIds : CreatePot(c, p)
  \/ \E c \in Users, p \in PotIds, a \in {Some(1), Some(2)} : PotDeposit(c, p, a)
  \/ \E c \in Users : CreateTransaction(c, TxOf(c), Tx(3, now, "General"))
  \/ \E h \in Headers, b \in Bodies, f \in Faults : PotDelete(h, b, f)

SpecEdge == InitPots /\ [][NextEdge]_vars

\* every promise settles
SpecAuthLive == SpecAuth /\ \A c \in Calls : WF_vars(Settle(c))

\* ============================================================ the claims
RECURSIVE SumTotals(_, _)
SumTotals(v, ps) ==
  IF ps = {} THEN 0
  ELSE LET p == CHOOSE x \in ps : TRUE
       IN v.pots[p].total + SumTotals(v, ps \ {p})

PotsOf(v, u) == {p \in PotIds : v.pots[p].exists /\ v.pots[p].user_id = u}

TransactionsOf(v, u) ==
  {i \in TxIds : v.transactions[i].exists /\ v.transactions[i].user_id = u}

\* the balance of an account plus the totals of its pots
Funds(v, u) == v.profiles[u].balance + SumTotals(v, PotsOf(v, u))

\* C1: a successful pot_deposit lowers the caller's balance by exactly amount
\* and raises the pot total by exactly amount, a successful pot_withdraw does
\* the reverse, so pot.total + balance is the same before and after; no
\* other row changes.
C1_TransferConserves ==
  \A c \in Users, p \in PotIds, a \in PotAmounts :
    LET d == Handle(DepositReq(c, p, a), DB, now)
        w == Handle(WithdrawReq(c, p, a), DB, now)
    IN /\ d.res.error = "" =>
            /\ a[1] > 0
            /\ d.db.profiles[c].balance = profiles[c].balance - a[1]
            /\ d.db.pots[p].total = pots[p].total + a[1]
            /\ d.db.pots[p].total + d.db.profiles[c].balance
                 = pots[p].total + profiles[c].balance
            /\ d.db = [DB EXCEPT !.profiles[c].balance = @ - a[1],
                                 !.pots[p].total = @ + a[1]]
       /\ w.res.error = "" =>
            /\ a[1] > 0
            /\ w.db.profiles[c].balance = profiles[c].balance + a[1]
            /\ w.db.pots[p].total = pots[p].total - a[1]
            /\ w.db.pots[p].total + w.db.profiles[c].balance
                 = pots[p].total + profiles[c].balance
            /\ w.db = [DB EXCEPT !.profiles[c].balance = @ + a[1],
                                 !.pots[p].total = @ - a[1]]

\* a deposit of 2 has succeeded and its pot holds the money
C1_Witness ==
  /\ last.op = "pot_deposit" /\ last.error = "" /\ last.delta = -2
  /\ \E p \in PotIds : pots[p].exists /\ pots[p].total >= 2

\* C2: once all concurrent pot_deposit, pot_withdraw and delete_pot requests
\* of the account have finished, its balance plus the totals of its pots
\* that still exist is what it was before the requests began.
C2_ConcurrentPotOpsConserve ==
  (\A s \in Sessions : sess[s].pc = "done" /\ sess[s].req.op \in PotOps)
    => Funds(DB, Account) = Funds(start, Account)

\* C3: a pot_deposit that has applied its debit found a balance of at least
\* the amount, so the balance it leaves (the row is locked until its commit)
\* is not negative.
C3_DepositNeverOverdraws ==
  \A s \in Sessions :
    (sess[s].req.op = "pot_deposit" /\ sess[s].pc \in {"update_pots", "return"})
      => View(s).profiles[sess[s].req.caller].balance >= 0

\* C4: for an authenticated caller, pot_deposit and pot_withdraw fail with
\* 'Amount must be a positive number' when amount is NULL or <= 0; on a pot
\* of the caller pot_deposit fails with 'Insufficient balance' when
\* amount > balance and pot_withdraw with 'Insufficient pot balance' when
\* amount > total; every failure (these, 'Pot not found', 'Unauthorized')
\* leaves all rows as they were.
C4_FailuresChangeNothing ==
  \A c \in Callers, p \in PotIds, a \in PotAmounts :
    LET d   == Handle(DepositReq(c, p, a), DB, now)
        w   == Handle(WithdrawReq(c, p, a), DB, now)
        own == pots[p].exists /\ pots[p].user_id = c
    IN /\ (c # NoUser /\ (a = NULL \/ a[1] <= 0)) =>
            /\ d.res.error = "Amount must be a positive number"
            /\ w.res.error = "Amount must be a positive number"
       /\ (c # NoUser /\ a # NULL /\ a[1] > 0 /\ own) =>
            /\ a[1] > profiles[c].balance => d.res.error = "Insufficient balance"
            /\ a[1] > pots[p].total => w.res.error = "Insufficient pot balance"
       /\ c = NoUser => d.res.error = "Unauthorized" /\ w.res.error = "Unauthorized"
       /\ d.res.error # "" => d.db = DB
       /\ w.res.error # "" => w.db = DB

\* a deposit has failed with 'Insufficient balance' while money was in a pot
C4_Witness ==
  /\ last.op = "pot_deposit" /\ last.error = "Insufficient balance"
  /\ \E p \in PotIds : pots[p].exists /\ pots[p].total > 0

\* C5: delete_pot on a pot of the caller with total T removes the row and
\* raises the caller's balance by exactly T (by nothing when T = 0); the
\* balance plus the totals of all the caller's pots is the same before and
\* after, and no other row changes.
C5_DeletePotReturnsTotal ==
  \A c \in Users, p \in PotIds :
    (pots[p].exists /\ pots[p].user_id = c) =>
      LET r == Handle(DeleteReq(c, p), DB, now)
      IN /\ r.res.error = ""
         /\ ~r.db.pots[p].exists
         /\ r.db.profiles[c].balance = profiles[c].balance + pots[p].total
         /\ Funds(r.db, c) = Funds(DB, c)
         /\ r.db = [DB EXCEPT !.profiles[c].balance = @ + pots[p].total,
                              !.pots[p] = NoRow]

\* a pot that held 2 has been deleted
C5_Witness ==
  last.op = "delete_pot" /\ last.error = "" /\ last.delta = 2

\* C6: the balance equals the sum of the amounts of the account's
\* transactions dated within the current statement period (the calendar
\* month that contains now).
C6_BalanceIsPeriodSum ==
  \A u \in Users :
    profiles[u].balance =
      SumAmounts(DB, {i \in TransactionsOf(DB, u) :
                        InStatementPeriod(transactions[i].date, now)})

PotEffect(req, v) ==
  CASE req.op = "pot_deposit"  -> -req.amount[1]
    [] req.op = "pot_withdraw" -> req.amount[1]
    [] req.op = "delete_pot"   -> v.pots[req.pot_id].total

\* what a transaction write does to the balance
TxEffect(req, v) ==
  Handle(req, v, now).db.profiles[req.caller].balance
    - v.profiles[req.caller].balance

\* C8: when a write of a transaction dated in the current period and a
\* pot_deposit, pot_withdraw or delete_pot of the same account have both
\* succeeded, in whatever order their statements ran, the balance is the
\* balance before them plus the effect of the one plus the effect of the
\* other.
C8_NoLostBalanceUpdate ==
  \A s \in Sessions : \A o \in Sessions \ {s} :
    ( /\ sess[s].pc = "done" /\ sess[o].pc = "done"
      /\ sess[s].req.op \in TxOps /\ sess[o].req.op \in PotOps
      /\ sess[s].res.error = "" /\ sess[o].res.error = "" )
    => profiles[Account].balance
         = start.profiles[Account].balance + TxEffect(sess[s].req, start)
             + PotEffect(sess[o].req, start)

\* a deposit and an expense have both succeeded, and the expense was
\* committed between the deposit's balance check and its debit: the balance
\* the deposit returns is not the balance it checked less the amount
C8_Witness ==
  \E s \in Sessions : \E o \in Sessions \ {s} :
    /\ sess[s].pc = "done" /\ sess[o].pc = "done"
    /\ sess[s].req.op = "createTransaction" /\ sess[s].res.error = ""
    /\ sess[o].req.op = "pot_deposit" /\ sess[o].res.error = ""
    /\ sess[o].res.newBalance
         # Some(sess[o].loc.v_profile.balance - sess[o].req.amount[1])
    /\ profiles[Account].balance = start.profiles[Account].balance - 2
                                     - sess[o].req.amount[1]

\* C9: the step in which a pot_deposit, pot_withdraw or delete_pot ends with
\* success shows its balance change and its pot change together or neither
\* of them: a deposit lowers the balance and raises the pot total by the
\* amount, a withdrawal does the reverse, a delete removes the pot and raises
\* the balance by the total the pot held.
C9_WritesVisibleTogether ==
  [][\A s \in Sessions :
       ( /\ sess[s].pc # "done" /\ sess'[s].pc = "done"
         /\ sess'[s].res.error = "" /\ sess[s].req.op \in PotOps )
       => LET c == sess[s].req.caller
              p == sess[s].req.pot_id
          IN \/ profiles' = profiles /\ pots' = pots
             \/ /\ pots[p].exists
                /\ profiles'[c].balance
                     = profiles[c].balance + PotEffect(sess[s].req, DB)
                /\ IF sess[s].req.op = "delete_pot" THEN ~pots'[p].exists
                   ELSE /\ pots'[p].exists
                        /\ pots'[p].total
                             = pots[p].total - PotEffect(sess[s].req, DB)]_vars

\* the database without the rows of account b, whose balance is reset
Erase(v, b) ==
  [profiles     |-> [v.profiles EXCEPT ![b] = ProfileRow(0)],
   pots         |-> [p \in PotIds |->
                       IF v.pots[p].exists /\ v.pots[p].user_id = b
                       THEN NoRow ELSE v.pots[p]],
   transactions |-> [i \in TxIds |->
                       IF v.transactions[i].exists /\ v.transactions[i].user_id = b
                       THEN NoRow ELSE v.transactions[i]],
   budgets      |-> [i \in BudgetIds |->
                       IF v.budgets[i].exists /\ v.budgets[i].user_id = b
                       THEN NoRow ELSE v.budgets[i]]]

\* the rows of account b
RowsOf(v, b) ==
  [profiles     |-> v.profiles[b],
   pots         |-> [p \in PotIds |-> SelectOwnPot(v, p, b)],
   transactions |-> [i \in TxIds |-> OwnTransaction(v, i, b)]]

\* the calls a caller can make on rows that exist or not, its own or not
WritesOf(a) ==
  {DepositReq(a, p, m) : p \in PotIds, m \in PotAmounts}
    \cup {WithdrawReq(a, p, m) : p \in PotIds, m \in PotAmounts}
    \cup {DeleteReq(a, p) : p \in PotIds}
    \cup {Req("updateTransaction", a, "p1", NULL, i,
              [NoPatch EXCEPT !.amount = Some(3)]) : i \in TxIds}
    \cup {Req("deleteTransaction", a, "p1", NULL, i, NoPatch) : i \in TxIds}

\* C10: what any call returns to a caller authenticated as a is the same
\* with and without the rows of another account b, and no call of a changes
\* a row of b.
C10_TenantIsolation ==
  \A a \in Users : \A b \in Users \ {a} :
    /\ SelectTransactions(DB, a) = SelectTransactions(Erase(DB, b), a)
    /\ SelectPots(DB, a) = SelectPots(Erase(DB, b), a)
    /\ SelectProfiles(DB, a) = SelectProfiles(Erase(DB, b), a)
    /\ get_balance(DB, a) = get_balance(Erase(DB, b), a)
    /\ \A r \in WritesOf(a) :
         /\ Handle(r, DB, now).res = Handle(r, Erase(DB, b), now).res
         /\ RowsOf(Handle(r, DB, now).db, b) = RowsOf(DB, b)
    /\ \A p_user_id \in Users, p_category \in Categories :
         get_budget_spent(DB, now, p_user_id, p_category)
           = get_budget_spent(Erase(DB, b), now, p_user_id, p_category)

\* the database in which pot p does not exist
WithoutPot(v, p) == [v EXCEPT !.pots[p] = NoRow]

\* the pot requests a caller can make on pot p
PotReqs(c, p) ==
  {DepositReq(c, p, a) : a \in PotAmounts}
    \cup {WithdrawReq(c, p, a) : a \in PotAmounts}
    \cup {DeleteReq(c, p)}

\* C11: pot_deposit, pot_withdraw and delete_pot on a pot of another account
\* return what the same call returns when the pot does not exist ('Pot not
\* found' when the amount is valid), and both calls leave every row as it
\* was.
C11_ForeignPotIsNotFound ==
  \A c \in Users, p \in PotIds :
    (pots[p].exists /\ pots[p].user_id # c) =>
      \A r \in PotReqs(c, p) :
        LET here == Handle(r, DB, now)
            gone == Handle(r, WithoutPot(DB, p), now)
        IN /\ here.res = gone.res
           /\ here.db = DB
           /\ gone.db = WithoutPot(DB, p)
           /\ (r.op = "delete_pot" \/ (r.amount # NULL /\ r.amount[1] > 0))
                => here.res = Error("Pot not found")

\* a delete_pot has failed with 'Pot not found' although every pot id names
\* a pot, one of them with money in it: the pot it named is another account's
C11_Witness ==
  /\ last.op = "delete_pot" /\ last.error = "Pot not found"
  /\ \A p \in PotIds : pots[p].exists
  /\ \E p \in PotIds : pots[p].total > 0

\* C12: deleteTransaction of an id that matches no transaction of the caller
\* fails and leaves every row as it was; deleteTransaction of an own
\* transaction succeeds and removes the row.
C12_DeleteMissingIsNotFound ==
  \A c \in Users, i \in TxIds :
    LET r == Handle(Req("deleteTransaction", c, "p1", NULL, i, NoPatch), DB, now)
    IN IF OwnTransaction(DB, i, c).exists
       THEN r.res.error = "" /\ ~r.db.transactions[i].exists
       ELSE r.res.error # "" /\ r.db = DB

\* the value a patch gives a field: the old value when the field is absent
Patched(old, new) == IF new = NULL THEN old ELSE new[1]

\* C13: updateTransaction of an own transaction sets the fields present in
\* the partial record and leaves the absent fields, the owner, every other
\* transaction and every pot as they were; when no row of the caller has the
\* id it fails and leaves every row, the balance too, as it was.
C13_UpdateChangesPresentFields ==
  \A c \in Users, i \in TxIds,
     d \in TxPatches \cup {[NoPatch EXCEPT !.name = Some("Bolt")],
                           [NoPatch EXCEPT !.recurring = Some(TRUE)]} :
    LET r   == Handle(Req("updateTransaction", c, "p1", NULL, i, d), DB, now)
        old == transactions[i]
        new == r.db.transactions[i]
    IN IF OwnTransaction(DB, i, c).exists
       THEN /\ r.res.error = ""
            /\ new.exists /\ new.user_id = old.user_id
            /\ new.amount   = Patched(old.amount, d.amount)
            /\ new.date     = Patched(old.date, d.date)
            /\ new.category = Patched(old.category, d.category)
            /\ new.name     = Patched(old.name, d.name)
            /\ new.recurring = Patched(old.recurring, d.recurring)
            /\ \A j \in TxIds \ {i} : r.db.transactions[j] = transactions[j]
            /\ r.db.pots = pots
            /\ \A u \in Users \ {c} : r.db.profiles[u] = profiles[u]
       ELSE r.res.error # "" /\ r.db = DB

\* an update of one of two transactions has succeeded and changed the balance
C13_Witness ==
  /\ last.op = "updateTransaction" /\ last.error = "" /\ last.delta # 0
  /\ \A i \in TxIds : transactions[i].exists

RECURSIVE SumAbs(_, _)
SumAbs(v, ids) ==
  IF ids = {} THEN 0
  ELSE LET i == CHOOSE x \in ids : TRUE
       IN ABS(v.transactions[i].amount) + SumAbs(v, ids \ {i})

\* spent(account, category) of the glossary: the expenses of the category
\* dated in the current statement period
Spent(v, t, u, k) ==
  SumAbs(v, {i \in TransactionsOf(v, u) :
               /\ v.transactions[i].category = k
               /\ v.transactions[i].amount < 0
               /\ InStatementPeriod(v.transactions[i].date, t)})

\* C14: every budget that get_budgets and get_overview return to a caller
\* has spent = the sum of abs(amount) of the caller's expenses of the budget's
\* category dated in the current statement period, and
\* remaining = maximum - spent, negative when overspent.
C14_SpentAndRemaining ==
  \A u \in Users : \A i \in BudgetIds :
    OwnBudget(DB, i, u).exists =>
      \A b \in {get_budgets(DB, now, u).budgets[i],
                get_overview_budgets(DB, now, u).budgets[i]} :
        /\ b.exists
        /\ b.spent = Spent(DB, now, u, budgets[i].category)
        /\ b.remaining = budgets[i].maximum - b.spent


\* the vendors of the recurring bills of account u
Vendors(v, u) ==
  {v.transactions[i].name :
     i \in {j \in TransactionsOf(v, u) :
              v.transactions[j].recurring /\ v.transactions[j].amount < 0}}

\* the date of the latest recurring expense of vendor n
LatestDate(v, u, n) ==
  CHOOSE d \in Times \cup BillDates :
    /\ \E i \in TransactionsOf(v, u) :
         /\ v.transactions[i].recurring /\ v.transactions[i].amount < 0
         /\ v.transactions[i].name = n /\ v.transactions[i].date = d
    /\ \A i \in TransactionsOf(v, u) :
         (/\ v.transactions[i].recurring /\ v.transactions[i].amount < 0
          /\ v.transactions[i].name = n) => v.transactions[i].date <= d

\* the status of a bill whose latest transaction is dated d, at time t
StatusAt(d, t) ==
  IF InStatementPeriod(d, t) THEN "paid"
  ELSE IF DayOfMonth(t) < DayOfMonth(d) /\ DayOfMonth(d) <= DayOfMonth(t) + 5
       THEN "due-soon"
       ELSE "upcoming"

VendorsWith(v, t, u, statuses) ==
  {n \in Vendors(v, u) : StatusAt(LatestDate(v, u, n), t) \in statuses}

\* the list of bills has one bill for every vendor, which stands for the
\* vendor's latest transaction and has the status of its date
C15_BillsOfClient ==
  \A r \in GetRecurringBills(DB, now, Owner, BillsParams("", "Latest")) :
    /\ \A n \in Vendors(DB, Owner) :
         Cardinality({k \in DOMAIN r.bills : r.bills[k].name = n}) = 1
    /\ \A k \in DOMAIN r.bills :
         LET b == r.bills[k]
         IN /\ b.name \in Vendors(DB, Owner)
            /\ b.id \in TransactionsOf(DB, Owner)
            /\ transactions[b.id].name = b.name
            /\ transactions[b.id].date = b.date
            /\ b.date = LatestDate(DB, Owner, b.name)
            /\ b.dueDay = DayOfMonth(b.date)
            /\ b.status = StatusAt(b.date, now)

\* the overview counts as paid, unpaid and due soon the vendors of these
\* statuses
C15_BillsOfOverview ==
  \A s \in get_overview_recurring(DB, now, Owner) :
    /\ s.paid.count = Cardinality(VendorsWith(DB, now, Owner, {"paid"}))
    /\ s.dueSoon.count = Cardinality(VendorsWith(DB, now, Owner, {"due-soon"}))
    /\ s.upcoming.count
         = Cardinality(VendorsWith(DB, now, Owner, {"due-soon", "upcoming"}))

\* C15: the classifier yields one bill for every vendor of the caller's
\* recurring expenses, which stands for the vendor's latest-dated transaction;
\* dueDay is the day of the month of that date, and the status is paid when
\* the date is in the current calendar month, else due-soon when
\* today < dueDay <= today + 5, else upcoming
C15_OneBillPerVendor == C15_BillsOfClient /\ C15_BillsOfOverview

\* the vendors with a recurring expense dated in the calendar month of t
VendorsPaidIn(v, t, u) ==
  {v.transactions[i].name :
     i \in {j \in TransactionsOf(v, u) :
              /\ v.transactions[j].recurring /\ v.transactions[j].amount < 0
              /\ InStatementPeriod(v.transactions[j].date, t)}}

\* C16: a vendor with a recurring expense dated in the current calendar month
\* is classified paid, whatever other recurring transactions it has
C16_PaidWhenAnyInMonth ==
  /\ \A r \in GetRecurringBills(DB, now, Owner, BillsParams("", "Latest")) :
       \A n \in VendorsPaidIn(DB, now, Owner) :
         \E k \in DOMAIN r.bills :
           r.bills[k].name = n /\ r.bills[k].status = "paid"
  /\ \A s \in get_overview_recurring(DB, now, Owner) :
       s.paid.count >= Cardinality(VendorsPaidIn(DB, now, Owner))

\* the sum of abs(amount) over the bills at the places S of a list
RECURSIVE SumAbsAt(_, _)
SumAbsAt(bills, S) ==
  IF S = {} THEN 0
  ELSE LET k == CHOOSE x \in S : TRUE
       IN ABS(bills[k].amount) + SumAbsAt(bills, S \ {k})

\* C17: in the summary, paid counts and sums abs(amount) over the paid bills,
\* dueSoon over the due-soon bills, upcoming over the upcoming and due-soon
\* bills; total and totalAmount are upcoming's count and amount; so
\* paid.count + upcoming.count is the number of vendors and
\* dueSoon.count <= upcoming.count
C17_SummaryRollup ==
  /\ \A r \in GetRecurringBills(DB, now, Owner, BillsParams("", "Latest")) :
       LET With(st) == {k \in DOMAIN r.bills : r.bills[k].status \in st}
           Rollup(st) == [amount |-> SumAbsAt(r.bills, With(st)),
                          count  |-> Cardinality(With(st))]
           s == r.summary
       IN /\ s.paid = Rollup({"paid"})
          /\ s.dueSoon = Rollup({"due-soon"})
          /\ s.upcoming = Rollup({"upcoming", "due-soon"})
          /\ s.total = s.upcoming.count
          /\ s.totalAmount = s.upcoming.amount
          /\ s.paid.count + s.upcoming.count = Cardinality(Vendors(DB, Owner))
          /\ s.dueSoon.count <= s.upcoming.count
  /\ \A rec \in recurring(DB, Owner) :
       LET s == recurring_bills(DB, now, rec)
       IN /\ s.total = s.upcoming.count
          /\ s.totalAmount = s.upcoming.amount
          /\ s.paid.count + s.upcoming.count = Cardinality(Vendors(DB, Owner))
          /\ s.paid.amount + s.upcoming.amount = SumAbsOf(DB, rec)
          /\ s.dueSoon.count <= s.upcoming.count
          /\ s.dueSoon.amount <= s.upcoming.amount

\* two vendors, one paid and one due soon, in both summaries
C17_Witness ==
  /\ \E r \in GetRecurringBills(DB, now, Owner, BillsParams("", "Latest")) :
       /\ r.summary.paid.count = 1 /\ r.summary.dueSoon.count = 1
       /\ r.summary.total = 1
  /\ \E rec \in recurring(DB, Owner) :
       /\ recurring_bills(DB, now, rec).paid.count = 1
       /\ recurring_bills(DB, now, rec).dueSoon.count = 1

\* the rows of a list
Range(f) == {f[k] : k \in DOMAIN f}

MaxPage == 3

Limits == {1, 2}

\* the queries of the listing: every page, limit, sort, search and category
Queries ==
  {Params(Some(p), Some(l), sort, search, category) :
     p \in 1 .. MaxPage, l \in Limits, sort \in Sorts, search \in Searches,
     category \in {"", "All Transactions", "Bills"}}

\* one page has the total, the number of pages and the number of rows of the
\* claim, and its rows are matching rows in the order of the sort
C18_OnePage ==
  \A q \in Queries :
    LET n == Cardinality(Matching(DB, Owner, q))
        p == q.page[1]
        l == q.limit[1]
    IN \A r \in GetTransactions(DB, Owner, q) :
         /\ r.total = n
         /\ r.pages = Ceil(n, l)
         /\ Len(r.transactions)
              = IF (p - 1) * l >= n THEN 0 ELSE Min(p * l, n) - (p - 1) * l
         /\ Range(r.transactions) \subseteq Matching(DB, Owner, q)
         /\ \A a, b \in DOMAIN r.transactions :
              a < b =>
                LET ka == Column(transactions[r.transactions[a]], SORT_MAP(q.sort).column)
                    kb == Column(transactions[r.transactions[b]], SORT_MAP(q.sort).column)
                IN IF SORT_MAP(q.sort).ascending THEN ka <= kb ELSE ka >= kb

\* the pages of one query, fetched one after the other, are disjoint and
\* together hold every matching row
C18_PagesPartition ==
  \A q \in Queries :
    LET P     == Ceil(Cardinality(Matching(DB, Owner, q)), q.limit[1])
        Pages == [p \in 1 .. P |->
                    {r.transactions :
                       r \in GetTransactions(DB, Owner, [q EXCEPT !.page = Some(p)])}]
    IN \A f \in [1 .. P -> UNION {Pages[p] : p \in 1 .. P}] :
         (\A p \in 1 .. P : f[p] \in Pages[p]) =>
           /\ \A p1, p2 \in 1 .. P :
                p1 # p2 => Range(f[p1]) \cap Range(f[p2]) = {}
           /\ UNION {Range(f[p]) : p \in 1 .. P} = Matching(DB, Owner, q)

\* C18: the listing with page p and limit l over n matching transactions
\* returns total = n, pages = ceil(n / l) and the rows at the places
\* (p-1)*l .. min(p*l, n)-1 of the sorted matching rows; consecutive pages
\* are disjoint and together hold all n rows
C18_Pagination == C18_OnePage /\ C18_PagesPartition

\* the amounts in the list are in the order of abs(amount) that the sort
\* names
ByAbsAmount(amounts, sort) ==
  \A a, b \in DOMAIN amounts :
    a < b => IF sort = "Highest" THEN ABS(amounts[a]) >= ABS(amounts[b])
             ELSE ABS(amounts[a]) <= ABS(amounts[b])

C19_BillsByAbsAmount ==
  \A sort \in {"Highest", "Lowest"} :
    \A r \in GetRecurringBills(DB, now, Owner, BillsParams("", sort)) :
      ByAbsAmount([k \in DOMAIN r.bills |-> r.bills[k].amount], sort)

C19_ListingByAbsAmount ==
  \A sort \in {"Highest", "Lowest"} :
    \A r \in GetTransactions(DB, Owner, Params(Some(1), Some(2), sort, "", "")) :
      ByAbsAmount([k \in DOMAIN r.transactions |->
                     transactions[r.transactions[k]].amount], sort)

\* C19: the sort "Highest" orders the items by abs(amount) descending
\* whatever the sign of the amount, in the listing of transactions and in the
\* listing of recurring bills, and "Lowest" by abs(amount) ascending
C19_HighestIsByAbsAmount == C19_ListingByAbsAmount /\ C19_BillsByAbsAmount

\* the operations that may change a balance: the writes of transactions,
\* whose trigger accrues them, and the transfers of the pots
BalanceOps ==
  {"createTransaction", "updateTransaction", "deleteTransaction",
   "pot_deposit", "pot_withdraw", "delete_pot"}

\* C20: the balance of an existing account is changed only by the accrual
\* trigger and by deposit, withdraw and delete of a pot; every other
\* operation, the load of the profile with its upsert included, leaves it as
\* it was
C20_OnlyAccrualAndPotsChangeBalance ==
  [][last'.op \notin BalanceOps =>
       \A u \in Users :
         profiles[u].exists =>
           /\ profiles'[u].exists
           /\ profiles'[u].balance = profiles[u].balance]_vars

\* the sum of the positive amounts of the transactions ids
RECURSIVE SumIncome(_, _)
SumIncome(v, ids) ==
  IF ids = {} THEN 0
  ELSE LET i == CHOOSE x \in ids : TRUE
       IN (IF v.transactions[i].amount > 0 THEN v.transactions[i].amount ELSE 0)
            + SumIncome(v, ids \ {i})

\* the sum of abs(amount) of the negative amounts of the transactions ids
RECURSIVE SumExpenses(_, _)
SumExpenses(v, ids) ==
  IF ids = {} THEN 0
  ELSE LET i == CHOOSE x \in ids : TRUE
       IN (IF v.transactions[i].amount < 0 THEN -v.transactions[i].amount ELSE 0)
            + SumExpenses(v, ids \ {i})

C22_OverviewLists ==
  \A u \in Users :
    LET own  == {p \in DOMAIN pots : pots[p].exists /\ pots[p].user_id = u}
        mine == {i \in DOMAIN transactions :
                   transactions[i].exists /\ transactions[i].user_id = u}
    IN /\ \A r \in GetOverviewPots(DB, u) :
            LET shown == {r.items[k].id : k \in DOMAIN r.items}
            IN /\ Len(r.items) = Min(4, Cardinality(own))
               /\ Cardinality(shown) = Len(r.items)
               /\ shown \subseteq own
               /\ \A a, b \in DOMAIN r.items :
                    a < b => pots[r.items[a].id].created_at
                               <= pots[r.items[b].id].created_at
               /\ \A p \in shown, q \in own \ shown :
                    pots[p].created_at <= pots[q].created_at
               /\ \A k \in DOMAIN r.items :
                    LET p == r.items[k].id
                    IN /\ r.items[k].total = pots[p].total
                       /\ r.items[k].target = pots[p].target
                       /\ r.items[k].remaining = pots[p].target - pots[p].total
                       /\ IF pots[p].target = 0 THEN r.items[k].percentage = 0
                          ELSE r.items[k].percentage * pots[p].target
                                 = pots[p].total * 100
               /\ r.totalSaved = SumTotals(DB, own)
       /\ \A r \in GetOverviewRecent(DB, u) :
            /\ Len(r) = Min(5, Cardinality(mine))
            /\ Cardinality(Range(r)) = Len(r)
            /\ Range(r) \subseteq mine
            /\ \A a, b \in DOMAIN r :
                 a < b => transactions[r[a]].date >= transactions[r[b]].date
            /\ \A i \in Range(r), j \in mine \ Range(r) :
                 transactions[i].date >= transactions[j].date
       /\ \A i \in BudgetIds :
            get_overview_budgets(DB, now, u).budgets[i].exists
              <=> (budgets[i].exists /\ budgets[i].user_id = u)

\* five pots of one account, and the pot that is not listed holds money
C22_Witness ==
  \E r \in GetOverviewPots(DB, Owner) :
    /\ Cardinality({p \in DOMAIN pots : pots[p].exists /\ pots[p].user_id = Owner}) = 5
    /\ Len(r.items) = 4
    /\ \E p \in DOMAIN pots :
         /\ pots[p].exists /\ pots[p].total > 0
         /\ \A k \in DOMAIN r.items : r.items[k].id # p

\* C23: getOverview fails with Unauthorized when there is no authenticated
\* caller, else with Profile not found when the caller has no profile row,
\* and returns the dashboard otherwise; a failure is thrown and comes with no
\* data
C23_OverviewErrors ==
  \A c \in Callers :
    LET r == getOverview(DB, now, c)
    IN /\ c = NoUser => r.thrown = "Unauthorized" /\ r.data = NULL
       /\ (c # NoUser /\ ~profiles[c].exists)
            => r.thrown = "Profile not found" /\ r.data = NULL
       /\ (c # NoUser /\ profiles[c].exists)
            => /\ r.thrown = ""
               /\ r.data # NULL
               /\ r.data.balance.error = ""
               /\ r.data.balance.current = profiles[c].balance

\* an account without a profile row that has a transaction, next to an
\* account with a profile row
C23_Witness ==
  \E c, u \in Users :
    /\ ~profiles[c].exists /\ TransactionsOf(DB, c) # {}
    /\ getOverview(DB, now, c).thrown = "Profile not found"
    /\ profiles[u].exists /\ getOverview(DB, now, u).thrown = ""

\* no two budgets of one account share a category or a theme, no two pots
\* of one account share a theme, and no maximum, target or total is below 0
RowsValid ==
  /\ \A i, j \in BudgetIds :
       (/\ i # j /\ budgets[i].exists /\ budgets[j].exists
        /\ budgets[i].user_id = budgets[j].user_id)
         => /\ budgets[i].category # budgets[j].category
            /\ budgets[i].theme # budgets[j].theme
  /\ \A p, q \in PotIds :
       (/\ p # q /\ pots[p].exists /\ pots[q].exists
        /\ pots[p].user_id = pots[q].user_id)
         => pots[p].theme # pots[q].theme
  /\ \A i \in BudgetIds : budgets[i].exists => budgets[i].maximum >= 0
  /\ \A p \in PotIds : pots[p].exists => pots[p].target >= 0 /\ pots[p].total >= 0

\* C24: in every reachable state no two budgets of one account share a
\* category or a theme, no two pots of one account share a theme, every
\* maximum, target and total is >= 0; and a create or update that is rejected
\* changes nothing
C24_RowConstraints ==
  /\ []RowsValid
  /\ [][(last'.op \in {"createPot", "updatePot", "createBudget", "updateBudget"}
          /\ last'.error # "") => DB' = DB]_vars

\* a pot whose theme another pot of the account has was just rejected
C24_Witness ==
  /\ last.op \in {"createPot", "updatePot"}
  /\ last.error = "duplicate key value violates unique constraint pots_user_id_theme_key"
  /\ \E p, q \in PotIds :
       /\ p # q /\ pots[p].exists /\ pots[q].exists
       /\ pots[p].user_id = pots[q].user_id

\* the expenses of category k of account u dated in the window of the
\* budgets at time t, summed over the rows of v
SpentNow(v, t, u, k) ==
  SumExpenses(v, {i \in TransactionsOf(v, u) :
                    /\ v.transactions[i].category = k
                    /\ v_in_current_month(v.transactions[i].date, t)})

\* C25: the read operations leave the balances and all rows unchanged, and
\* listBudgets returns spent computed from the transactions as they are at
\* the time of the call
C25_ReadsAreLive ==
  /\ [][last'.op \in ReadOps => DB' = DB]_vars
  /\ [](\A u \in Users, i \in BudgetIds :
          (budgets[i].exists /\ budgets[i].user_id = u)
            => get_budgets(DB, now, u).budgets[i].spent
                 = SpentNow(DB, now, u, budgets[i].category))

\* listBudgets was just called and a budget has expenses
C25_Witness ==
  /\ last.op = "get_budgets"
  /\ last.error = ""
  /\ \E i \in BudgetIds :
       /\ budgets[i].exists
       /\ get_budgets(DB, now, budgets[i].user_id).budgets[i].spent > 0

\* C26: a transaction dated outside the current statement period never
\* affects the balance: a step that inserts it, deletes it, or updates it to
\* another amount or to another date outside the period leaves every balance
\* as it was.
C26_OutOfPeriodLeavesBalance ==
  [][\A i \in TxIds :
       (/\ transactions'[i] # transactions[i]
        /\ transactions[i].exists
             => ~InStatementPeriod(transactions[i].date, now)
        /\ transactions'[i].exists
             => ~InStatementPeriod(transactions'[i].date, now'))
       => profiles' = profiles]_vars

\* the account has an income of this month, and an expense dated in another
\* month was just updated: the balance is the income alone
C26_Witness ==
  /\ last.op = "updateTransaction" /\ last.error = "" /\ last.delta = 0
  /\ profiles[Owner].balance = 3
  /\ \E i, j \in TxIds :
       /\ transactions[i].exists /\ transactions[i].amount = 3
       /\ transactions[i].date = now
       /\ transactions[j].exists /\ transactions[j].amount = -2
       /\ ~InStatementPeriod(transactions[j].date, now)

\* the amount of a row if it is dated in the statement period of t, else 0
PeriodAmount(row, t) ==
  IF InStatementPeriod(row.date, t) THEN row.amount ELSE 0

\* C27: an update of a transaction changes the balance by (the new amount if
\* the new date is in the statement period, else 0) minus (the old amount if
\* the old date was in the statement period, else 0); that is the balance
\* after deleting the old row and inserting the new one, and an update that
\* changes neither amount nor date leaves the balance unchanged.
C27_UpdateDelta ==
  [][last'.op = "updateTransaction" /\ last'.error = "" =>
       \A i \in TxIds :
         transactions[i].exists /\ transactions'[i].exists =>
           /\ transactions'[i] # transactions[i] =>
                /\ profiles'[Owner].balance - profiles[Owner].balance =
                     PeriodAmount(transactions'[i], now)
                       - PeriodAmount(transactions[i], now)
                /\ profiles' =
                     ApplyWrites(DB,
                       update_balance_on_transaction("DELETE", transactions[i],
                                                     NoRow, now)
                       \o update_balance_on_transaction("INSERT", NoRow,
                                                        transactions'[i], now)
                     ).profiles
           /\ (/\ transactions'[i].amount = transactions[i].amount
               /\ transactions'[i].date = transactions[i].date
               /\ \A j \in TxIds \ {i} : ~transactions[j].exists)
                => profiles' = profiles]_vars

\* C27 read with the window of the trigger in place of the statement period
C27_UpdateDeltaInWindow ==
  [][last'.op = "updateTransaction" /\ last'.error = "" =>
       \A i \in TxIds :
         transactions'[i] # transactions[i] =>
           profiles'[Owner].balance - profiles[Owner].balance =
             (IF v_in_current_month(transactions'[i].date, now)
              THEN transactions'[i].amount ELSE 0)
             - (IF v_in_current_month(transactions[i].date, now)
                THEN transactions[i].amount ELSE 0)]_vars

\* the amounts a pot request is tried with: none, negative, zero, positive
AnyAmounts == PotAmounts \cup {Some(-1)}

\* C28: pot_deposit, pot_withdraw and delete_pot return 'Unauthorized' to an
\* unauthenticated caller whatever the pot id and the amount are; for an
\* authenticated caller pot_deposit and pot_withdraw return 'Amount must be a
\* positive number' for an amount that is missing or <= 0 also when the pot
\* id names no pot of the caller; and pot_deposit returns 'Pot not found'
\* for a pot id that names no pot of the caller also when the balance is
\* below the amount.
C28_CheckOrder ==
  \A p \in PotIds, a \in AnyAmounts :
    /\ Handle(DepositReq(NoUser, p, a), DB, now).res = Error("Unauthorized")
    /\ Handle(WithdrawReq(NoUser, p, a), DB, now).res = Error("Unauthorized")
    /\ Handle(DeleteReq(NoUser, p), DB, now).res = Error("Unauthorized")
    /\ \A c \in Users :
         /\ (a = NULL \/ a[1] <= 0) =>
              /\ Handle(DepositReq(c, p, a), DB, now).res
                   = Error("Amount must be a positive number")
              /\ Handle(WithdrawReq(c, p, a), DB, now).res
                   = Error("Amount must be a positive number")
         /\ (/\ a # NULL /\ a[1] > 0
             /\ ~(pots[p].exists /\ pots[p].user_id = c)) =>
              Handle(DepositReq(c, p, a), DB, now).res = Error("Pot not found")

\* a deposit has failed with 'Pot not found' while no account has a balance
\* that covers any amount, and a pot of some account exists
C28_Witness ==
  /\ last.op = "pot_deposit" /\ last.error = "Pot not found"
  /\ \A u \in Users : profiles[u].balance <= 0
  /\ \E p \in PotIds : pots[p].exists

\* C29: for each budget, every list of latest transactions that get_budgets
\* can return holds at most 3 rows, all of them transactions of the budget's
\* account and category with amount < 0, in descending order of date, and no
\* matching transaction that is left out is dated later than a listed one;
\* the rows are taken from all dates, so the list has 3 rows whenever 3
\* matching rows exist in any month.
C29_LatestTransactions ==
  \A b \in BudgetIds :
    budgets[b].exists =>
      LET u == budgets[b].user_id
          matching == {i \in DOMAIN transactions :
                         /\ transactions[i].exists
                         /\ transactions[i].user_id = u
                         /\ transactions[i].category = budgets[b].category
                         /\ transactions[i].amount < 0}
          lists == LatestTransactions(DB, u, budgets[b].category)
      IN /\ get_budgets(DB, now, u).error = ""
         /\ lists # {}
         /\ \A r \in lists :
              /\ Len(r) = IF Cardinality(matching) < 3
                          THEN Cardinality(matching) ELSE 3
              /\ \A k \in 1 .. Len(r) : r[k] \in matching
              /\ \A j, k \in 1 .. Len(r) :
                   j < k => /\ r[j] # r[k]
                            /\ transactions[r[j]].date >= transactions[r[k]].date
              /\ \A i \in matching \ {r[k] : k \in 1 .. Len(r)} :
                   \A k \in 1 .. Len(r) :
                     transactions[r[k]].date >= transactions[i].date

\* the account has read its budgets while it had four expenses of the
\* budget's category, one of them dated in the month before and listed, an
\* income of the category and another account's expense
C29_Witness ==
  /\ last.op = "get_budgets" /\ last.error = ""
  /\ budgets["b1"].exists
  /\ \A i \in OverviewTxIds : transactions[i].exists
  /\ transactions["t5"].amount > 0
  /\ \E r \in LatestTransactions(DB, Owner, "Bills") :
       /\ Len(r) = 3
       /\ ~InStatementPeriod(transactions[r[3]].date, now)

\* C30: with the clock inside one statement period and operations applied
\* one at a time from an account with balance 0 and no rows, in every
\* reachable state the balance plus the totals of the account's pots equals
\* the sum of the amounts of the account's transactions dated in the current
\* statement period.
C30_FundsArePeriodSum ==
  \A u \in Users :
    profiles[u].balance + SumTotals(DB, PotsOf(DB, u)) =
      SumAmounts(DB, {i \in TransactionsOf(DB, u) :
                        InStatementPeriod(transactions[i].date, now)})

\* C30 read with the window of the trigger in place of the statement period
C30_FundsAreTriggerSum ==
  \A u \in Users :
    profiles[u].balance + SumTotals(DB, PotsOf(DB, u)) =
      SumAmounts(DB, {i \in TransactionsOf(DB, u) :
                        v_in_current_month(transactions[i].date, now)})

\* C31: the net contribution of a transaction to the balance over its whole
\* life is zero once it is deleted, also when the month changes between its
\* writes: an account that started with balance 0 and has no transaction
\* left has balance 0.
C31_DeletedLeavesNothing ==
  (\A i \in TxIds : ~transactions[i].exists) => profiles[Owner].balance = 0

\* C31 while the clock stays in the month in which the account was created
C31_DeletedLeavesNothingInOneMonth ==
  (now < MonthLen /\ \A i \in TxIds : ~transactions[i].exists)
    => profiles[Owner].balance = 0

\* the summaries getRecurringBills can return to account u
ClientSummaries(u) ==
  {r.summary : r \in GetRecurringBills(DB, now, u, BillsParams("", "Latest"))}

\* C32: for the same transactions of an account and the same time, the
\* recurringBills summary of get_overview equals the summary of
\* getRecurringBills in every field, also for transactions dated in the last
\* second of the current month: each summary one of them can return is a
\* summary the other can return.
C32_SummariesAgree ==
  \A u \in Users : get_overview_recurring(DB, now, u) = ClientSummaries(u)

\* C32 for accounts none of whose recurring expenses is dated in the last
\* second of the current month
C32_SummariesAgreeOutsideLastSecond ==
  \A u \in Users :
    (\A i \in TransactionsOf(DB, u) :
       ~(/\ IsRecurringExpense(transactions[i])
         /\ InStatementPeriod(transactions[i].date, now)
         /\ ~v_in_current_month(transactions[i].date, now)))
    => get_overview_recurring(DB, now, u) = ClientSummaries(u)

\* the orders in which the database can return the transactions of account u
\* to getTransactions({ limit: 500 })
FetchOrders(u) ==
  OrderBy(DB, Matching(DB, u, Params(NULL, NULL, "", "", "")),
          SORT_MAP("").column, SORT_MAP("").ascending)

TwoWithdrawalsRaced ==
  /\ \A s \in Sessions : sess[s].pc = "done" /\ sess[s].req.op = "pot_withdraw"
  /\ start.pots["p1"].exists
  /\ \A s \in Sessions : sess[s].req.amount[1] <= start.pots["p1"].total
  /\ sess["s1"].req.amount[1] + sess["s2"].req.amount[1] > start.pots["p1"].total

\* the amount session s has withdrawn
Withdrawn(s) == IF sess[s].res.error = "" THEN sess[s].req.amount[1] ELSE 0

\* C34: under every interleaving of concurrent requests on one pot the pot
\* total is >= 0 in every committed state; of two concurrent withdrawals that
\* each fit the pot total but together exceed it at most one takes effect,
\* and the one that does not changes neither the pot total nor the balance.
C34_WithdrawalsNeverOverdrawThePot ==
  /\ \A p \in PotIds : pots[p].exists => pots[p].total >= 0
  /\ TwoWithdrawalsRaced =>
       /\ \E s \in Sessions : sess[s].res.error # ""
       /\ pots["p1"].total =
            start.pots["p1"].total - Withdrawn("s1") - Withdrawn("s2")
       /\ profiles[Account].balance =
            start.profiles[Account].balance + Withdrawn("s1") + Withdrawn("s2")

\* both withdrawals passed the test of the total before either had
\* committed: one has succeeded, the other was rolled back by the check of
\* the pots table
C34_Witness ==
  /\ TwoWithdrawalsRaced
  /\ \E s \in Sessions : sess[s].res.error = ""
  /\ \E s \in Sessions :
       sess[s].res.error = "new row violates check constraint pots_total_check"

\* the trigger adds the amount of every transaction of the current calendar
\* month when it is inserted now
C35_TriggerCountsTheMonth ==
  \A i \in TxIds :
    (transactions[i].exists /\ InStatementPeriod(transactions[i].date, now)) =>
      update_balance_on_transaction("INSERT", NoRow, transactions[i], now)
        = <<WBal(transactions[i].user_id, transactions[i].amount)>>

\* get_budget_spent sums the expenses of every instant of the calendar month
C35_SpentCountsTheMonth ==
  \A u \in Users, k \in Categories :
    get_budget_spent(DB, now, u, k) = Spent(DB, now, u, k)

\* get_overview counts as paid every bill dated in the calendar month
C35_OverviewCountsTheMonth ==
  \A u \in Users : \A rec \in recurring(DB, u) :
    recurring_bills(DB, now, rec).paid.count =
      Cardinality({i \in rec : InStatementPeriod(transactions[i].date, now)})

\* C35: the balance trigger, get_budget_spent and get_overview treat a
\* transaction as in-period for every instant of the current calendar month,
\* from its first instant up to and including its last; a transaction dated
\* in the final second of the month is counted like any other of that month.
C35_WholeMonthIsInPeriod ==
  /\ C35_TriggerCountsTheMonth
  /\ C35_SpentCountsTheMonth
  /\ C35_OverviewCountsTheMonth

\* C35 for a ledger in which no transaction is dated after 23:59:59 of the
\* last day of the current month
C35_MonthButItsLastSecond ==
  (\A i \in TxIds :
     transactions[i].exists =>
       ~(/\ InStatementPeriod(transactions[i].date, now)
         /\ transactions[i].date > v_month_end(now)))
  => C35_WholeMonthIsInPeriod

\* C36: in the auth context, whenever user is a user B, the query cache
\* holds no data loaded while another user A was the user: every path by
\* which the identity changes or is lost clears the cache before B becomes
\* the user.
C36_CacheIsOfTheUser ==
  user # null => cache \subseteq {user}

\* The session has ended and its SIGNED_OUT event has been handled, user is
\* null and no login or register is in progress.
SignedOut ==
  /\ user = null
  /\ session = null
  /\ events = {}
  /\ calls["login"].pc = "idle"
  /\ calls["register"].pc = "idle"

\* C37: once a SIGNED_OUT event or a logout has set user to null, user stays
\* null until a later sign-in is started: a loadUser call started before the
\* sign-out and resolving after it does not set the user again.
C37_SignedOutStaysSignedOut ==
  [][SignedOut => user' = null]_vars

\* the step in which call c returns or throws
Ends(c) ==
  calls[c].pc # "idle" /\ calls'[c].pc = "idle"

Loading == {"checkAuth", "login", "register", "logout"}

\* C38: every login, register, logout and initial session check eventually
\* ends, and ends with isLoading = false, whether the underlying auth call
\* resolves or rejects; when logout returns or throws, user is null and the
\* query cache has been cleared; isAuthenticated is true exactly when user
\* is non-null.
C38_CallsEndNotLoading ==
  /\ [][/\ \A c \in Loading : Ends(c) => isLoading' = FALSE
        /\ Ends("logout") => user' = null /\ cache' = {}
        /\ isAuthenticated' <=> user' # null]_vars
  /\ \A c \in Loading : calls[c].pc # "idle" ~> calls[c].pc = "idle" /\ isLoading = FALSE

\* a logout is in flight for a user whose data is cached
C38_Witness ==
  /\ calls["logout"].pc = "signOut"
  /\ isLoading = TRUE
  /\ isAuthenticated
  /\ cache # {}

\* the body names a pot in potId or in id
HasPotId(b) ==
  b.kind = "object" /\ (b.potId \in PotIds \/ b.id \in PotIds)

\* the pot id the handler passes to delete_pot
PotIdOf(b) ==
  IF b.potId # undefined THEN b.potId ELSE b.id

\* no delete_pot and 401 without an Authorization header
NoHeaderIs401(h, b, f) ==
  LET r == pot_delete(HttpReq(h, b), DB, now, f)
  IN h = null => ~r.called /\ r.db = DB /\ r.response.status = 401

\* no delete_pot and 400 without a pot id
NoPotIdIs400(h, b, f) ==
  LET r == pot_delete(HttpReq(h, b), DB, now, f)
  IN h # null /\ ~HasPotId(b) =>
       ~r.called /\ r.db = DB /\ r.response.status = 400

\* the answer when delete_pot is called
CalledIsAnswered(h, b, f) ==
  LET r == pot_delete(HttpReq(h, b), DB, now, f)
  IN r.called =>
       CASE f = "throw" -> r.response.status = 500 /\ ~r.response.success
         [] f = "error" -> r.response.status = 400 /\ ~r.response.success
         [] OTHER ->
              LET rpc == Handle(DeleteReq(h, PotIdOf(b)), DB, now)
              IN IF rpc.res.error # ""
                 THEN /\ rpc.res.error \in {"Unauthorized", "Pot not found"}
                      /\ r.response.status = 400 /\ ~r.response.success
                      /\ r.db = DB
                 ELSE /\ r.response.status = 200 /\ r.response.success
                      /\ r.db = rpc.db

\* 200 and success = true only for a delete_pot that returned no error, and
\* deletePot returns for that answer and throws for every other
OnlySuccessIs200(h, b, f) ==
  LET r == pot_delete(HttpReq(h, b), DB, now, f)
      ok == /\ r.called /\ f = "none"
            /\ Handle(DeleteReq(h, PotIdOf(b)), DB, now).res.error = ""
  IN /\ (r.response.status = 200) <=> ok
     /\ r.response.success <=> ok
     /\ (deletePot(r.response) = null) <=> ok

C39_Handler(bodies) ==
  \A h \in Headers, b \in bodies, f \in Faults :
    /\ NoHeaderIs401(h, b, f)
    /\ NoPotIdIs400(h, b, f)
    /\ CalledIsAnswered(h, b, f)
    /\ OnlySuccessIs200(h, b, f)

\* C39: the pot-delete handler never calls delete_pot for a request without
\* an Authorization header (it answers 401) or without a pot id in potId or
\* id (it answers 400); when delete_pot is called, a transport error or an
\* error-valued result is answered with 400 and success = false, a thrown
\* exception with 500, and only a result without error with 200 and
\* success = true, which deletePot reports as success and every other answer
\* as a thrown error.
C39_PotDeleteAnswers ==
  C39_Handler(Bodies)

\* the same for every body but the JSON text null
C39_PotDeleteAnswersButNullBody ==
  C39_Handler({b \in Bodies : b.kind # "null"})

\* the part of C39 that a null body breaks
C39_NoPotIdIs400 ==
  \A h \in Headers, b \in Bodies, f \in Faults : NoPotIdIs400(h, b, f)

====
